---- MODULE Spec2Model ----
(***************************************************************************)
(* State-machine model of the Gemini account service                       *)
(* (src/services/geminiService.js and its route callers).                  *)
(*                                                                         *)
(*   SpecRefresh : autoRefreshGeminiTokens driving loginGeminiChild        *)
(*                 (the browser session driver) for every configured child *)
(*   SpecPool    : updateGeminiPool and cleanInvalidAccounts against the   *)
(*                 remote pool service                                     *)
(***************************************************************************)
EXTENDS Integers, Sequences, FiniteSets, TLC

(***************************************************************************)
(* Bounds of the model                                                     *)
(***************************************************************************)
MaxChildren == 2
MaxPool == 2
MaxRuns == 2
MaxProvider == 3
MaxInbox == 2
MaxPosition == 6
MaxIds == 3
MaxGap == 3
MaxAlnumRun == 7
MaxCount == 12

(***************************************************************************)
(* JavaScript values                                                       *)
(***************************************************************************)
\* null / undefined / "not there" are kept apart from the empty string
Null == "<null>"
Absent == "<absent>"

Truthy(v) == v \notin {"", Null, Absent}

\* a || b
OrElse(a, b) == IF Truthy(a) THEN a ELSE b

\* a loop that leaves before its last item
LoopDone_OffByOne(i, n) == i >= n

\* a loop that is left after its first item
LoopDone_AfterFirst(i, n) == i >= 2

\* for (const x of list): is the loop over once index i is reached
LoopDone(i, n) == i > n

(***************************************************************************)
(* Page URLs.  A URL is its path segments plus the csesidx query parameter *)
(* (Absent when the query string does not carry it).                       *)
(***************************************************************************)
Url(segs, csesidx) == [segs |-> segs, csesidx |-> csesidx]

NoUrl == Url(<< >>, Absent)

Urls ==
  { Url(<<"verify">>, Absent),                        \* still on the code page
    Url(<<"admin", "create">>, Absent),               \* onboarding page
    Url(<<"x", "create">>, Absent),                   \* "/create" without "/admin"
    Url(<<"home", "cid", "team1">>, "idx1"),          \* chat page, complete
    Url(<<"home", "cid", "team1">>, Absent),          \* chat page, no csesidx
    Url(<<"home", "cid", "">>, "idx1"),               \* "/cid/" with nothing after it
    Url(<<"home", "cid", "team1", "admin", "create">>, "idx1") }

\* currentUrl.includes('/cid/')
IncludesCid(u) == \E i \in 1..(Len(u.segs) - 1) : u.segs[i] = "cid"

\* currentUrl.includes('/create')
IncludesCreate(u) == \E i \in 1..Len(u.segs) : u.segs[i] = "create"

\* currentUrl.includes('/admin/create')
IncludesAdminCreate(u) ==
  \E i \in 1..(Len(u.segs) - 1) : u.segs[i] = "admin" /\ u.segs[i + 1] = "create"

\* currentUrl.match(/\/cid\/([^/?]+)/): the first non-empty segment after a "cid"
CidMatches(u) ==
  { i \in 1..(Len(u.segs) - 1) : u.segs[i] = "cid" /\ u.segs[i + 1] # "" }

PathMatchTeamId(u) ==
  IF CidMatches(u) = {}
  THEN Null
  ELSE LET i == CHOOSE k \in CidMatches(u) : \A m \in CidMatches(u) : k <= m
       IN  u.segs[i + 1]

\* urlParams.get('csesidx')
UrlParamCsesidx(u) == IF u.csesidx = Absent THEN Null ELSE u.csesidx

(***************************************************************************)
(* Cookies of the page: what cookies.find(c => c.name === ...)?.value gives *)
(* for the two cookies the driver reads: Absent (no such cookie), the      *)
(* empty string, or a value.                                               *)
(***************************************************************************)
CookieJars ==
  [secure : {Absent, "", "ses1"}, host : {Absent, "", "oses1"}]

(***************************************************************************)
(* getLoginTokens(page): the page's cookies and URL to a token object, or  *)
(* the thrown 'Token 获取不完整' error.                                    *)
(***************************************************************************)
TokensIncomplete(secure_c_ses, csesidx, team_id) ==
  ~Truthy(secure_c_ses) \/ ~Truthy(csesidx) \/ ~Truthy(team_id)

getLoginTokens(jar, url) ==
  LET secure_c_ses == OrElse(jar.secure, Null)
      host_c_oses  == OrElse(jar.host, "")
      csesidx      == OrElse(UrlParamCsesidx(url), Null)
      team_id      == PathMatchTeamId(url)
  IN  IF TokensIncomplete(secure_c_ses, csesidx, team_id)
      THEN [kind |-> "thrown", error |-> "IncompleteToken"]
      ELSE [kind |-> "tokens",
            csesidx |-> csesidx, host_c_oses |-> host_c_oses,
            secure_c_ses |-> secure_c_ses, team_id |-> team_id]

(***************************************************************************)
(* Verification mail.  A mail text is a sequence of characters; "MARK" is  *)
(* the marker phrase, "NL" a newline, "SP" another whitespace character.   *)
(***************************************************************************)
Alnum == {"A", "b", "7"}
Whitespace == {"NL", "SP"}

\* the whitespace run text[p..q-1] holds at least two newlines
TwoNewlines(text, p, q) ==
  \E i, j \in p..(q - 1) : i < j /\ text[i] = "NL" /\ text[j] = "NL"

\* /.../ matches with the marker at position m and the code starting at q
CodeMatchAt(text, m, q) ==
  /\ text[m] = "MARK"
  /\ q > m
  /\ q + 5 <= Len(text)
  /\ \A k \in (m + 1)..(q - 1) : text[k] \in Whitespace
  /\ TwoNewlines(text, m + 1, q)
  /\ \A k \in q..(q + 5) : text[k] \in Alnum

CodeMatches(text) ==
  { mq \in (1..Len(text)) \X (1..Len(text)) : CodeMatchAt(text, mq[1], mq[2]) }

\* the null of a code-valued expression
NoCode == << >>

\* text.match(/MARK\s*\n\s*\n\s*([A-Z0-9]{6})/i): the first match's group, or null
extractGeminiVerificationCode(text) ==
  IF CodeMatches(text) = {}
  THEN NoCode
  ELSE LET mq == CHOOSE a \in CodeMatches(text) :
                   \A b \in CodeMatches(text) : a[1] <= b[1]
       IN  SubSeq(text, mq[2], mq[2] + 5)

TargetSubject == "Gemini Business verification code"

\* an entry of the inbox list: hasText tells whether the entry carries a text
\* key; detail is the body the mail service's detail endpoint holds for it;
\* createTime tells whether the mail came before or after the run submitted
\* the account's address
Email(subject, hasText, text, detail) ==
  [subject |-> subject, hasText |-> hasText, text |-> text, detail |-> detail,
   createTime |-> "after"]

\* the same mail, left in the inbox by an earlier login
Earlier(email) == [email EXCEPT !.createTime = "before"]

TextWithCode == <<"MARK", "NL", "NL", "A", "b", "7", "7", "b", "A">>
TextJunk == <<"MARK", "SP", "A", "b", "7", "7", "b", "A">>

MailOther == Email("welcome", TRUE, TextJunk, TextJunk)
MailCode == Email(TargetSubject, TRUE, TextWithCode, TextWithCode)
MailJunk == Email(TargetSubject, TRUE, TextJunk, TextJunk)
MailNoText == Email(TargetSubject, FALSE, << >>, TextWithCode)
MailEmptyText == Email(TargetSubject, TRUE, << >>, TextWithCode)
MailOldCode == Earlier(MailCode)

\* the lists the inbox-list endpoint may answer with
Inboxes ==
  { << >>, <<MailOther>>, <<MailCode>>, <<MailJunk>>, <<MailOther, MailCode>>,
    <<MailNoText>>, <<MailNoText, MailCode>>, <<MailJunk, MailCode>>,
    <<MailEmptyText>>, <<MailOldCode>> }

\* findGeminiVerificationCode(emailList), the definition in force (the later
\* one of the file): the code of the first target mail that yields one; a
\* target mail without text makes extractGeminiVerificationCode(undefined)
\* throw a TypeError, which ends the scan.
RECURSIVE FindCodeFrom(_, _)
FindCodeFrom(list, i) ==
  IF i > Len(list)
  THEN [kind |-> "value", code |-> NoCode]
  ELSE IF list[i].subject # TargetSubject
       THEN FindCodeFrom(list, i + 1)
       ELSE IF ~list[i].hasText
            THEN [kind |-> "thrown", code |-> NoCode]
            ELSE LET code == extractGeminiVerificationCode(list[i].text)
                 IN  IF code # NoCode
                     THEN [kind |-> "value", code |-> code]
                     ELSE FindCodeFrom(list, i + 1)

findGeminiVerificationCode(emailList) ==
  IF Len(emailList) = 0
  THEN [kind |-> "value", code |-> NoCode]
  ELSE FindCodeFrom(emailList, 1)

(***************************************************************************)
(* State                                                                   *)
(***************************************************************************)
VARIABLES
  \* ---- loginGeminiChild (one run of the browser session driver) ----
  dpc,              \* position in loginGeminiChild
  proxyConfig,      \* getProxyConfig() of this run
  browser,          \* "none" (let browser;), "open", "closed"
  openBrowsers,     \* browser instances launched and not closed
  attempt,          \* i of the running waitForGeminiVerificationCode call
  lastAnswer,       \* what the latest inbox-list request of that call answered
  listRequests,     \* inbox-list requests that call has made
  pollWaited,       \* time that call has spent in its retry waits, in ms
  verificationCode, \* the code the poll returned
  currentUrl,       \* let currentUrl
  currentUrl1,      \* let currentUrl1
  hasSeenCreate,    \* let hasSeenCreate
  elapsed,          \* Date.now() - startTime while the first loop runs, in ms
  elapsed1,         \* Date.now() - startTime1 while the second loop runs, in ms
  branch,           \* "none", "onboarding" (if) or "direct" (else)
  dret,             \* how the run ends: tokens, undefined, or a thrown error
  userDataDirs,     \* profile directories on disk
  \* ---- autoRefreshGeminiTokens ----
  rpc,              \* position in autoRefreshGeminiTokens
  loginEmail,       \* argument
  fileConfig,       \* gemini-mail.yaml on disk
  geminiConfig,     \* the loaded config object, mutated in place
  ri,               \* index of the child of the for-of loop
  successCount,
  failureCount,
  rret,             \* how autoRefreshGeminiTokens ends
  driverCalls,      \* children loginGeminiChild was called for, in call order
  configWrites,     \* number of saveGeminiMailConfig calls
  \* ---- getLoginTokens applied to one page ----
  xpc,              \* "input" before the call, "done" after it
  xjar,             \* page.cookies()
  xurl,             \* page.url()
  xres,             \* what the call returned or threw
  \* ---- updateGeminiPool / cleanInvalidAccounts and the pool service ----
  pop,              \* the operation running: "none", "update", "clean"
  ppc,              \* position in it
  pool,             \* the pool service's accounts, in listing order
  nextPoolId,       \* the id the pool gives the next added account
  poolConfig,       \* the loaded config object (yamlAccounts), mutated in place
  accounts,         \* the list getPoolAccounts returned to the running loop
  pidx,             \* index of the running for-of loop
  deletedCount,
  addedCount,
  skippedCount,
  validCount,
  invalidCount,
  addResult,        \* what addAllAccounts returned
  pret,             \* how the operation ends
  poolLog,          \* the calls made to the pool service, in order
  response,         \* what the route handler answers
  runs,             \* pool operations that have been answered before this one
  firstPool,        \* the token sets in the pool when the first one was answered
  \* ---- the mail service functions and selectBusinessAccounts ----
  mpc,              \* "idle" before the call, "done" after it
  mop,              \* the function called
  marg,             \* its argument
  mret,             \* what it returned or threw
  provider,         \* the mail provider's accounts, in listing order
  snapshot,         \* accounts of temp-mail.yaml
  inboxRequests,    \* inbox-list requests made
  batch             \* POST /accounts/batch: i, the calls, accounts, errors

\* the browser handle of the running driver, and the instances alive
browserVars == <<browser, openBrowsers>>

\* the frame of waitForGeminiVerificationCode
pollVars == <<attempt, lastAnswer, listRequests, pollWaited>>

driverVars ==
  <<dpc, proxyConfig, browserVars, pollVars, verificationCode, currentUrl,
    currentUrl1, hasSeenCreate, elapsed, elapsed1, branch, dret, userDataDirs>>

refreshVars ==
  <<rpc, loginEmail, fileConfig, geminiConfig, ri, successCount, failureCount,
    rret, driverCalls, configWrites>>

extractVars == <<xpc, xjar, xurl, xres>>

poolVars ==
  <<pop, ppc, pool, nextPoolId, poolConfig, accounts, pidx, deletedCount,
    addedCount, skippedCount, validCount, invalidCount, addResult, pret,
    poolLog, response, runs, firstPool>>

\* what one pool operation leaves alone
rerunVars == <<runs, firstPool>>

mailVars == <<mpc, mop, marg, mret, provider, snapshot, inboxRequests, batch>>

\* what the refresh run and the driver leave alone
outsideRefresh == <<extractVars, poolVars, mailVars>>

(***************************************************************************)
(* Program constants                                                       *)
(***************************************************************************)
maxRetries == 5
retryDelay == 5000
maxWaitTime == 60000
pollDelay == 3000
concurrencyLimit == 5
maxBatchCount == 50

(***************************************************************************)
(* loginGeminiChild                                                        *)
(***************************************************************************)
ProxyConfigs ==
  { [enabled |-> FALSE, type |-> "http",   hasCredentials |-> FALSE],   \* default
    [enabled |-> TRUE,  type |-> "http",   hasCredentials |-> TRUE],
    [enabled |-> TRUE,  type |-> "socks5", hasCredentials |-> TRUE] }

\* proxyConfig.enabled && type !== 'socks5' && username && password && proxyValid
NeedsAuthenticate(pc) ==
  pc.enabled /\ pc.type # "socks5" /\ pc.hasCredentials

Running == [kind |-> "running"]
Undefined == [kind |-> "undefined"]
Thrown(e) == [kind |-> "thrown", error |-> e]

\* the awaited page calls that either return or throw, and what follows each
PageSteps ==
  { "setUserAgent", "goto", "waitEmailInput", "typeEmail", "clickNext",
    "waitPinInput", "focusPin", "clearPin", "typeCode", "clickVerify",
    "waitNameInput", "typeName", "clickSubmit" }

\* a driver that polls the mailbox right after the click on the next button
AfterStep_PollBeforePinInput(step) ==
  CASE step = "setUserAgent"   -> "goto"
    [] step = "goto"           -> "waitEmailInput"
    [] step = "waitEmailInput" -> "typeEmail"
    [] step = "typeEmail"      -> "clickNext"
    [] step = "clickNext"      -> "codePoll"
    [] step = "waitPinInput"   -> "focusPin"
    [] step = "focusPin"       -> "clearPin"
    [] step = "clearPin"       -> "typeCode"
    [] step = "typeCode"       -> "clickVerify"
    [] step = "clickVerify"    -> "readUrl"
    [] step = "waitNameInput"  -> "typeName"
    [] step = "typeName"       -> "clickSubmit"
    [] step = "clickSubmit"    -> "readUrl1"

AfterStep(step) ==
  CASE step = "setUserAgent"   -> "goto"
    [] step = "goto"           -> "waitEmailInput"
    [] step = "waitEmailInput" -> "typeEmail"
    [] step = "typeEmail"      -> "clickNext"
    [] step = "clickNext"      -> "waitPinInput"
    [] step = "waitPinInput"   -> "codePoll"
    [] step = "focusPin"       -> "clearPin"
    [] step = "clearPin"       -> "typeCode"
    [] step = "typeCode"       -> "clickVerify"
    [] step = "clickVerify"    -> "readUrl"
    [] step = "waitNameInput"  -> "typeName"
    [] step = "typeName"       -> "clickSubmit"
    [] step = "clickSubmit"    -> "readUrl1"

\* what getEmailList may do: throw, or answer with a list
NoAnswer == [kind |-> "none", list |-> << >>]

InboxAnswers ==
  {[kind |-> "thrown", list |-> << >>]} \cup {[kind |-> "list", list |-> l] : l \in Inboxes}

\* the body of the try of one attempt: the code it yields, NoCode when the
\* request or the scan throws or no code is found
AttemptCode(answer) ==
  IF answer.kind # "list" THEN NoCode
  ELSE LET found == findGeminiVerificationCode(answer.list)
       IN  IF found.kind = "value" THEN found.code ELSE NoCode

\* a poll that sleeps after every failed attempt
RetryWaits_EveryAttempt(i) == TRUE

\* if (i < maxRetries - 1): attempt i is followed by the retry wait
RetryWaits(i) == i < maxRetries - 1

\* the locals of a waitForGeminiVerificationCode call that has ended
PollFrameGone ==
  /\ attempt' = 0
  /\ lastAnswer' = NoAnswer
  /\ listRequests' = 0
  /\ pollWaited' = 0

\* entry of loginGeminiChild(child, token): getProxyConfig(), the profile
\* directory, the proxy probe (its result is ignored)
DriverBegin ==
  /\ dpc = "start"
  /\ \E cfg \in ProxyConfigs : proxyConfig' = cfg
  /\ \/ /\ userDataDirs' = userDataDirs + 1
        /\ dpc' = "launch"
        /\ dret' = dret
     \/ /\ userDataDirs' = userDataDirs          \* fs.mkdirSync throws
        /\ dpc' = "catch"
        /\ dret' = Thrown("fs")
  /\ UNCHANGED <<browserVars, pollVars, verificationCode, currentUrl, currentUrl1,
                 hasSeenCreate, elapsed, elapsed1, branch>>
  /\ UNCHANGED <<refreshVars, outsideRefresh>>

\* browser = await puppeteer.launch(...)
Launch ==
  /\ dpc = "launch"
  /\ \/ /\ browser' = "open"
        /\ openBrowsers' = openBrowsers + 1
        /\ dpc' = "newPage"
        /\ dret' = dret
     \/ /\ UNCHANGED browserVars
        /\ dpc' = "catch"
        /\ dret' = Thrown("launch")
  /\ UNCHANGED <<proxyConfig, pollVars, verificationCode, currentUrl, currentUrl1,
                 hasSeenCreate, elapsed, elapsed1, branch, userDataDirs>>
  /\ UNCHANGED <<refreshVars, outsideRefresh>>

\* const page = await browser.newPage()
NewPage ==
  /\ dpc = "newPage"
  /\ \/ /\ dpc' = IF NeedsAuthenticate(proxyConfig) THEN "authenticate"
                                                     ELSE "setUserAgent"
        /\ dret' = dret
     \/ /\ dpc' = "catch"
        /\ dret' = Thrown("newPage")
  /\ UNCHANGED <<proxyConfig, browserVars, pollVars, verificationCode, currentUrl,
                 currentUrl1, hasSeenCreate, elapsed, elapsed1, branch,
                 userDataDirs>>
  /\ UNCHANGED <<refreshVars, outsideRefresh>>

\* await page.authenticate(...), rethrown as the proxy authentication error
Authenticate ==
  /\ dpc = "authenticate"
  /\ \/ /\ dpc' = "setUserAgent"
        /\ dret' = dret
     \/ /\ dpc' = "catch"
        /\ dret' = Thrown("proxyAuth")
  /\ UNCHANGED <<proxyConfig, browserVars, pollVars, verificationCode, currentUrl,
                 currentUrl1, hasSeenCreate, elapsed, elapsed1, branch,
                 userDataDirs>>
  /\ UNCHANGED <<refreshVars, outsideRefresh>>

\* one awaited page call (navigation, selector wait, typing, click)
PageStep ==
  /\ dpc \in PageSteps
  /\ \/ /\ dpc' = AfterStep(dpc)
        /\ dret' = dret
     \/ /\ dpc' = "catch"
        /\ dret' = Thrown("page")
  /\ PollFrameGone
  /\ UNCHANGED <<proxyConfig, browserVars, verificationCode, currentUrl,
                 currentUrl1, hasSeenCreate, elapsed, elapsed1, branch,
                 userDataDirs>>
  /\ UNCHANGED <<refreshVars, outsideRefresh>>

\* one iteration of the for loop of waitForGeminiVerificationCode: the
\* inbox-list request, the scan, and either the return of the code or the
\* retry wait and i++; after the last iteration the timeout error
PollInbox ==
  /\ dpc = "codePoll"
  /\ attempt < maxRetries
  /\ \E answer \in InboxAnswers :
       /\ lastAnswer' = answer
       /\ listRequests' = listRequests + 1
       /\ IF AttemptCode(answer) # NoCode
          THEN /\ verificationCode' = AttemptCode(answer)
               /\ dpc' = "focusPin"
               /\ UNCHANGED <<attempt, pollWaited, dret>>
          ELSE /\ verificationCode' = verificationCode
               /\ pollWaited' = IF RetryWaits(attempt) THEN pollWaited + retryDelay
                                                      ELSE pollWaited
               /\ attempt' = attempt + 1
               /\ dpc' = IF attempt + 1 < maxRetries THEN "codePoll" ELSE "catch"
               /\ dret' = IF attempt + 1 < maxRetries THEN dret
                                                      ELSE Thrown("codeTimeout")
  /\ UNCHANGED <<proxyConfig, browserVars, currentUrl, currentUrl1, hasSeenCreate,
                 elapsed, elapsed1, branch, userDataDirs>>
  /\ UNCHANGED <<refreshVars, outsideRefresh>>

\* const startTime = Date.now(); let currentUrl = page.url();
\* let hasSeenCreate = currentUrl.includes('/admin/create')
ReadUrl ==
  /\ dpc = "readUrl"
  /\ \E u \in Urls :
       /\ currentUrl' = u
       /\ hasSeenCreate' = IncludesAdminCreate(u)
  /\ elapsed' = 0
  /\ dpc' = "redirect"
  /\ UNCHANGED <<proxyConfig, browserVars, pollVars, verificationCode, currentUrl1,
                 elapsed1, branch, dret, userDataDirs>>
  /\ UNCHANGED <<refreshVars, outsideRefresh>>

\* the condition of the first redirect loop
RedirectCond(u, t) ==
  (~IncludesCid(u) \/ IncludesAdminCreate(u)) /\ t < maxWaitTime

\* a first loop that has no test for the cid marker
RedirectSleeps_IgnoreCid(u, t) == ~IncludesCreate(u) /\ t < maxWaitTime

\* the loop body is entered and reaches its sleep: neither break is taken
RedirectSleeps(u, t) ==
  RedirectCond(u, t) /\ ~IncludesCreate(u) /\ ~IncludesCid(u)

\* if (currentUrl.includes('/admin/create')) ... else ...
BranchAfterRedirect(u) ==
  IF IncludesAdminCreate(u) THEN "onboarding" ELSE "direct"

\* one evaluation of the first while loop: leave it (condition false, or one of
\* the two breaks), or sleep 3 s and read the URL again; on leaving, the
\* if/else on '/admin/create'
RedirectPoll ==
  /\ dpc = "redirect"
  /\ IF RedirectSleeps(currentUrl, elapsed)
     THEN /\ \E u \in Urls : currentUrl' = u
          /\ elapsed' = elapsed + pollDelay
          /\ UNCHANGED <<dpc, hasSeenCreate, branch>>
     ELSE /\ hasSeenCreate' =
               IF ~RedirectCond(currentUrl, elapsed) THEN hasSeenCreate
               ELSE IncludesCreate(currentUrl)
          /\ branch' = BranchAfterRedirect(currentUrl)
          /\ dpc' = IF BranchAfterRedirect(currentUrl) = "onboarding"
                    THEN "waitNameInput" ELSE "extract"
          /\ elapsed' = 0
          /\ UNCHANGED currentUrl
  /\ UNCHANGED <<proxyConfig, browserVars, pollVars, verificationCode, currentUrl1,
                 elapsed1, dret, userDataDirs>>
  /\ UNCHANGED <<refreshVars, outsideRefresh>>

\* const startTime1 = Date.now(); let currentUrl1 = page.url()
ReadUrl1 ==
  /\ dpc = "readUrl1"
  /\ \E u \in Urls : currentUrl1' = u
  /\ elapsed1' = 0
  /\ dpc' = "redirect1"
  /\ UNCHANGED <<proxyConfig, browserVars, pollVars, verificationCode, currentUrl,
                 hasSeenCreate, elapsed, branch, dret, userDataDirs>>
  /\ UNCHANGED <<refreshVars, outsideRefresh>>

\* the condition of the second redirect loop
Redirect1Cond(u, t) == ~IncludesCid(u) /\ t < maxWaitTime

\* a second loop that starts over when its budget is used up
AfterRedirect1_PollAgain(u) == IF IncludesCid(u) THEN "extract" ELSE "redirect1"

\* a driver that gives up when the second loop ends without the cid marker
AfterRedirect1_FailOnTimeout(u) == IF IncludesCid(u) THEN "extract" ELSE "catch"

\* what follows the second loop: the settle wait and the token extraction,
\* whatever the URL is when the loop ends
AfterRedirect1(u) == "extract"

\* one evaluation of the second while loop; its body assigns currentUrl, not
\* currentUrl1
Redirect1Poll ==
  /\ dpc = "redirect1"
  /\ IF Redirect1Cond(currentUrl1, elapsed1)
     THEN /\ \E u \in Urls : currentUrl' = u
          /\ elapsed1' = elapsed1 + pollDelay
          /\ UNCHANGED dpc
     ELSE /\ dpc' = AfterRedirect1(currentUrl1)
          /\ elapsed1' = 0
          /\ UNCHANGED currentUrl
  /\ UNCHANGED <<proxyConfig, browserVars, pollVars, verificationCode, currentUrl1,
                 hasSeenCreate, elapsed, branch, dret, userDataDirs>>
  /\ UNCHANGED <<refreshVars, outsideRefresh>>

\* what loginGeminiChild does with the outcome of getLoginTokens: return the
\* tokens; a thrown error is caught and logged, and the function runs off its end
AfterGetLoginTokens(r) ==
  IF r.kind = "tokens" THEN r ELSE Undefined

\* the 10 s settle wait and try { return await getLoginTokens(page) } catch {}
\* (the same in both branches)
ExtractTokens ==
  /\ dpc = "extract"
  /\ \E r \in {Thrown("cookies")}
              \cup {getLoginTokens(jar, u) : jar \in CookieJars, u \in Urls} :
       dret' = AfterGetLoginTokens(r)
  /\ dpc' = "finally"
  /\ UNCHANGED <<proxyConfig, browserVars, pollVars, verificationCode, currentUrl,
                 currentUrl1, hasSeenCreate, elapsed, elapsed1, branch,
                 userDataDirs>>
  /\ UNCHANGED <<refreshVars, outsideRefresh>>

\* catch (error) { logger.error(...); throw error; }
DriverCatch ==
  /\ dpc = "catch"
  /\ dpc' = "finally"
  /\ PollFrameGone
  /\ UNCHANGED <<proxyConfig, browserVars, verificationCode, currentUrl,
                 currentUrl1, hasSeenCreate, elapsed, elapsed1, branch, dret,
                 userDataDirs>>
  /\ UNCHANGED <<refreshVars, outsideRefresh>>

\* a driver that never closes its browser
BrowserAfterFinally_NeverCloses(b) == b

\* a driver that closes the browser at the end of the try block only
BrowserAfterFinally_NoFinally(b) == IF b = "open" /\ dret.kind # "thrown" THEN "closed" ELSE b

\* finally { if (browser) await browser.close(); }
BrowserAfterFinally(b) == IF b = "open" THEN "closed" ELSE b

DriverFinally ==
  /\ dpc = "finally"
  /\ browser' = BrowserAfterFinally(browser)
  /\ openBrowsers' = IF browser = "open" /\ browser' = "closed"
                     THEN openBrowsers - 1 ELSE openBrowsers
  /\ dpc' = "done"
  /\ UNCHANGED <<proxyConfig, pollVars, verificationCode, currentUrl,
                 currentUrl1, hasSeenCreate, elapsed, elapsed1, branch, dret,
                 userDataDirs>>
  /\ UNCHANGED <<refreshVars, outsideRefresh>>

DriverNext ==
  \/ DriverBegin
  \/ Launch
  \/ NewPage
  \/ Authenticate
  \/ PageStep
  \/ PollInbox
  \/ ReadUrl
  \/ RedirectPoll
  \/ ReadUrl1
  \/ Redirect1Poll
  \/ ExtractTokens
  \/ DriverCatch
  \/ DriverFinally

(***************************************************************************)
(* gemini-mail.yaml: the parent, the children, the pool password           *)
(***************************************************************************)
ParentEmail == "parent@mail"
OtherEmail == "other@mail"

TokenSet(c, h, s, t) ==
  [csesidx |-> c, host_c_oses |-> h, secure_c_ses |-> s, team_id |-> t]

\* a child record without a tokens key
NoTokens == TokenSet(Absent, Absent, Absent, Absent)

Child(id, hasTokens, tokens, lastUpdated, skipReason) ==
  [accountId |-> id, hasTokens |-> hasTokens, tokens |-> tokens,
   lastUpdated |-> lastUpdated, skipReason |-> skipReason]

\* a child as selectBusinessAccounts stores it, and one an earlier refresh
\* has given tokens
FreshChild(id) == Child(id, FALSE, NoTokens, Absent, Absent)
SyncedChild(id) ==
  Child(id, TRUE, TokenSet("idx0", "oses0", "ses0", "team0"), "t0", Absent)

ChildLists ==
  UNION { [1..n -> {"fresh", "synced"}] : n \in 0..MaxChildren }

ChildrenOf(kinds) ==
  [i \in 1..Len(kinds) |->
     IF kinds[i] = "fresh" THEN FreshChild(i) ELSE SyncedChild(i)]

Config(parentEmail, children, password) ==
  [parent |-> [email |-> parentEmail], children |-> children,
   password |-> password, poolApiUrl |-> "http://pool"]

(***************************************************************************)
(* autoRefreshGeminiTokens(loginEmail, token)                              *)
(***************************************************************************)
Counts(s, f) == [kind |-> "counts", successCount |-> s, failureCount |-> f]

\* the precondition checks without the parent comparison
RefreshPrecondition_NoParentCheck(config, email) ==
  IF Len(config.children) = 0 THEN "noChildren" ELSE "ok"

\* the precondition checks: which error, if any, the call fails with
RefreshPrecondition(config, email) ==
  IF Len(config.children) = 0 THEN "noChildren"
  ELSE IF config.parent.email # email THEN "parentMismatch"
  ELSE "ok"

\* loadGeminiMailConfig() and the two checks before the loop
RefreshBegin ==
  /\ rpc = "start"
  /\ geminiConfig' = fileConfig
  /\ LET check == RefreshPrecondition(fileConfig, loginEmail)
     IN  IF check = "ok"
         THEN /\ rpc' = "loop"
              /\ rret' = rret
         ELSE /\ rpc' = "done"
              /\ rret' = Thrown(check)
  /\ ri' = 1
  /\ successCount' = 0
  /\ failureCount' = 0
  /\ UNCHANGED <<loginEmail, fileConfig, driverCalls, configWrites>>
  /\ UNCHANGED <<driverVars, outsideRefresh>>

\* the locals of a loginGeminiChild call that has returned or thrown
NoProxy == [enabled |-> FALSE, type |-> "http", hasCredentials |-> FALSE]

DriverFrameGone ==
  /\ proxyConfig' = NoProxy
  /\ PollFrameGone
  /\ verificationCode' = NoCode
  /\ currentUrl' = NoUrl
  /\ currentUrl1' = NoUrl
  /\ hasSeenCreate' = FALSE
  /\ elapsed' = 0
  /\ elapsed1' = 0
  /\ branch' = "none"
  /\ dret' = Running
  /\ UNCHANGED <<browserVars, userDataDirs>>

\* for (const child of children): tokens = await loginGeminiChild(child, token)
RefreshCallDriver ==
  /\ rpc = "loop"
  /\ ~LoopDone(ri, Len(geminiConfig.children))
  /\ rpc' = "awaitDriver"
  /\ driverCalls' = Append(driverCalls, ri)
  /\ dpc' = "start"
  /\ browser' = "none"
  /\ UNCHANGED <<openBrowsers, proxyConfig, pollVars, verificationCode, currentUrl, currentUrl1,
                 hasSeenCreate, elapsed, elapsed1, branch, dret, userDataDirs>>
  /\ UNCHANGED <<loginEmail, fileConfig, geminiConfig, ri, successCount,
                 failureCount, rret, configWrites>>
  /\ UNCHANGED outsideRefresh

\* child.tokens = { csesidx: tokens.csesidx || '', ... }
StoreTokens(t) ==
  TokenSet(OrElse(t.csesidx, ""), OrElse(t.host_c_oses, ""),
           OrElse(t.secure_c_ses, ""), OrElse(t.team_id, ""))

\* does the body of the try complete: loginGeminiChild threw, or it returned
\* undefined and tokens.csesidx throws a TypeError
AttemptSucceeds(r) == r.kind = "tokens"

\* a catch block that also drops the tokens the failing child had
ChildAfterAttempt_ClearOnFailure(child, r) ==
  IF AttemptSucceeds(r)
  THEN [child EXCEPT !.hasTokens = TRUE, !.tokens = StoreTokens(r),
                     !.lastUpdated = "t1"]
  ELSE [child EXCEPT !.hasTokens = FALSE, !.tokens = NoTokens]

\* the child after the try: child.tokens and child.lastUpdated assigned when
\* loginGeminiChild returned tokens, the child as it was when the catch ran
ChildAfterAttempt(child, r) ==
  IF AttemptSucceeds(r)
  THEN [child EXCEPT !.hasTokens = TRUE, !.tokens = StoreTokens(r),
                     !.lastUpdated = "t1"]
  ELSE child

\* a catch block that gives the batch up at the first failing child
NextIndex_StopAtFailure(i, succeeded) ==
  IF succeeded THEN i + 1 ELSE MaxChildren + 2

\* the for-of loop goes on to the next child after the try or its catch
NextIndex(i, succeeded) == i + 1

\* the rest of the loop body once loginGeminiChild has ended: the token
\* update and successCount++, or the catch and failureCount++
RefreshAfterDriver ==
  /\ rpc = "awaitDriver"
  /\ dpc = "done"
  /\ dpc' = "idle"
  /\ geminiConfig' =
       [geminiConfig EXCEPT !.children[ri] = ChildAfterAttempt(@, dret)]
  /\ IF AttemptSucceeds(dret)
     THEN /\ successCount' = successCount + 1
          /\ failureCount' = failureCount
          /\ rpc' = "delay"
     ELSE /\ successCount' = successCount
          /\ failureCount' = failureCount + 1
          /\ rpc' = "loop"
  /\ ri' = NextIndex(ri, AttemptSucceeds(dret))
  /\ UNCHANGED <<loginEmail, fileConfig, rret, driverCalls, configWrites>>
  /\ DriverFrameGone
  /\ UNCHANGED outsideRefresh

\* await new Promise(resolve => setTimeout(resolve, 2000)), end of the try
RefreshDelay ==
  /\ rpc = "delay"
  /\ rpc' = "loop"
  /\ UNCHANGED <<loginEmail, fileConfig, geminiConfig, ri, successCount,
                 failureCount, rret, driverCalls, configWrites>>
  /\ UNCHANGED <<driverVars, outsideRefresh>>

\* after the loop: saveGeminiMailConfig(geminiConfig); return the counts
RefreshSave ==
  /\ rpc = "loop"
  /\ LoopDone(ri, Len(geminiConfig.children))
  /\ rpc' = "done"
  /\ \/ /\ fileConfig' = geminiConfig
        /\ configWrites' = configWrites + 1
        /\ rret' = Counts(successCount, failureCount)
     \/ /\ fileConfig' = fileConfig             \* fs.writeFileSync throws
        /\ configWrites' = configWrites + 1
        /\ rret' = Thrown("save")
  /\ UNCHANGED <<loginEmail, geminiConfig, ri, successCount, failureCount,
                 driverCalls>>
  /\ UNCHANGED <<driverVars, outsideRefresh>>

RefreshNext ==
  \/ RefreshBegin
  \/ RefreshCallDriver
  \/ RefreshAfterDriver
  \/ RefreshDelay
  \/ RefreshSave

(***************************************************************************)
(* The pool service and its five helpers.  Each helper call is logged with *)
(* what the service answered.                                              *)
(***************************************************************************)
Call(op, arg, outcome) == [op |-> op, arg |-> arg, outcome |-> outcome]

PoolAccount(id, tokens) == [id |-> id, tokens |-> tokens]

\* the pool without the account id
RemoveAccount(p, id) == SelectSeq(p, LAMBDA a : a.id # id)

\* testAccount where a request error counts as a pass
testAccount_ErrorPasses(outcome) == outcome # "invalid"

\* testAccount: response.data.success === true; a request error gives false
testAccount(outcome) == outcome = "valid"

\* a deleteAccount that reports a 404 as a failure
deleteAccount_NotFoundFails(outcome) == outcome = "ok"

\* deleteAccount: true on a 2xx answer and on 404, false on any other error
deleteAccount(outcome) == outcome \in {"ok", "notFound"}

\* addAccount: response.data.success === true; an error gives false
addAccount(outcome) == outcome = "ok"

\* the pool after a delete request: the account is gone when the service
\* deleted it, and was already gone when the service answered 404
PoolAfterDelete(p, id, outcome) ==
  IF outcome = "error" THEN p ELSE RemoveAccount(p, id)

Object(o) == [kind |-> "object", obj |-> o]

(***************************************************************************)
(* updateGeminiPool, with deleteAllAccounts and addAllAccounts             *)
(***************************************************************************)
\* loadGeminiMailConfig(); without children: log and return (undefined)
UpdatePoolBegin ==
  /\ pop = "none"
  /\ pop' = "update"
  /\ poolConfig' = fileConfig
  /\ IF Len(fileConfig.children) = 0
     THEN /\ pret' = Undefined
          /\ ppc' = "respond"
     ELSE /\ pret' = pret
          /\ ppc' = "login"
  /\ UNCHANGED <<pool, nextPoolId, accounts, pidx, deletedCount, addedCount,
                 skippedCount, validCount, invalidCount, addResult, poolLog,
                 response>>
  /\ UNCHANGED <<driverVars, refreshVars, extractVars, mailVars, rerunVars>>

\* loginGeminiPool(poolApiUrl, password), of either operation
PoolLogin ==
  /\ ppc = "login"
  /\ \/ /\ poolLog' = Append(poolLog, Call("login", 0, "ok"))
        /\ ppc' = "list"
        /\ pret' = pret
     \/ /\ poolLog' = Append(poolLog, Call("login", 0, "error"))
        /\ ppc' = "respond"
        /\ pret' = Thrown("login")
  /\ UNCHANGED <<pop, pool, nextPoolId, poolConfig, accounts, pidx,
                 deletedCount, addedCount, skippedCount, validCount,
                 invalidCount, addResult, response>>
  /\ UNCHANGED <<driverVars, refreshVars, extractVars, mailVars, rerunVars>>

\* a loop that gives the batch up when the call for one item fails
NextItem_AbortOnFailure(i, ok) ==
  IF ok THEN i + 1 ELSE i + MaxPool + MaxChildren + 1

\* the item after item i of a pool loop: the helper's boolean result is only
\* counted and logged, the loop goes on either way
NextItem(i, ok) == i + 1

\* const accounts = await getPoolAccounts(...) at the head of
\* deleteAllAccounts; an empty list returns 0 at once
DeleteAllList ==
  /\ pop = "update"
  /\ ppc = "list"
  /\ \/ /\ poolLog' = Append(poolLog, Call("list", 0, "ok"))
        /\ accounts' = pool
        /\ ppc' = IF Len(pool) = 0 THEN "add" ELSE "delete"
        /\ pret' = pret
     \/ /\ poolLog' = Append(poolLog, Call("list", 0, "error"))
        /\ accounts' = accounts
        /\ ppc' = "respond"
        /\ pret' = Thrown("list")
  /\ pidx' = 1
  /\ UNCHANGED <<pop, pool, nextPoolId, poolConfig, deletedCount, addedCount,
                 skippedCount, validCount, invalidCount, addResult, response>>
  /\ UNCHANGED <<driverVars, refreshVars, extractVars, mailVars, rerunVars>>

\* one iteration of the delete loop of deleteAllAccounts
DeleteNext ==
  /\ pop = "update"
  /\ ppc = "delete"
  /\ \E outcome \in {"ok", "notFound", "error"} :
       LET id == accounts[pidx].id
       IN  /\ poolLog' = Append(poolLog, Call("delete", id, outcome))
           /\ pool' = PoolAfterDelete(pool, id, outcome)
           /\ deletedCount' = IF deleteAccount(outcome) THEN deletedCount + 1
                                                        ELSE deletedCount
           /\ IF LoopDone(NextItem(pidx, deleteAccount(outcome)), Len(accounts))
              THEN /\ ppc' = "add"
                   /\ pidx' = 1
              ELSE /\ ppc' = "delete"
                   /\ pidx' = NextItem(pidx, deleteAccount(outcome))
  /\ UNCHANGED <<pop, nextPoolId, poolConfig, accounts, addedCount,
                 skippedCount, validCount, invalidCount, addResult, pret,
                 response>>
  /\ UNCHANGED <<driverVars, refreshVars, extractVars, mailVars, rerunVars>>

\* !child.tokens || child.skipReason
SkipChild(child) == ~child.hasTokens \/ Truthy(child.skipReason)

\* a skip that leaves the child without a marker
MarkSkipped_NoMarker(child) == child

\* the in-memory skip marker of a child without tokens and without a reason
MarkSkipped(child) ==
  IF ~child.hasTokens /\ ~Truthy(child.skipReason)
  THEN [child EXCEPT !.skipReason = "noTokens"]
  ELSE child

\* one iteration of the loop of addAllAccounts: skip the child, or post it
AddNext ==
  /\ pop = "update"
  /\ ppc = "add"
  /\ ~LoopDone(pidx, Len(poolConfig.children))
  /\ LET child == poolConfig.children[pidx]
     IN  IF SkipChild(child)
         THEN /\ poolConfig' =
                   [poolConfig EXCEPT !.children[pidx] = MarkSkipped(child)]
              /\ skippedCount' = skippedCount + 1
              /\ pidx' = pidx + 1
              /\ UNCHANGED <<pool, nextPoolId, addedCount, poolLog>>
         ELSE /\ \E outcome \in {"ok", "rejected", "error"} :
                   /\ poolLog' = Append(poolLog, Call("add", pidx, outcome))
                   /\ pidx' = NextItem(pidx, addAccount(outcome))
                   /\ IF addAccount(outcome)
                      THEN /\ pool' = Append(pool,
                                        PoolAccount(nextPoolId, child.tokens))
                           /\ nextPoolId' = nextPoolId + 1
                           /\ addedCount' = addedCount + 1
                      ELSE UNCHANGED <<pool, nextPoolId, addedCount>>
              /\ UNCHANGED <<poolConfig, skippedCount>>
  /\ UNCHANGED <<pop, ppc, accounts, deletedCount, validCount, invalidCount,
                 addResult, pret, response>>
  /\ UNCHANGED <<driverVars, refreshVars, extractVars, mailVars, rerunVars>>

\* the end of addAllAccounts: getPoolAccounts and the counts object
AddFinish ==
  /\ pop = "update"
  /\ ppc = "add"
  /\ LoopDone(pidx, Len(poolConfig.children))
  /\ \/ /\ poolLog' = Append(poolLog, Call("list", 0, "ok"))
        /\ addResult' = Object([addedCount |-> addedCount,
                                skippedCount |-> skippedCount,
                                totalCount |-> Len(pool)])
        /\ ppc' = "finalList"
        /\ pret' = pret
     \/ /\ poolLog' = Append(poolLog, Call("list", 0, "error"))
        /\ addResult' = addResult
        /\ ppc' = "respond"
        /\ pret' = Thrown("list")
  /\ UNCHANGED <<pop, pool, nextPoolId, poolConfig, accounts, pidx,
                 deletedCount, addedCount, skippedCount, validCount,
                 invalidCount, response>>
  /\ UNCHANGED <<driverVars, refreshVars, extractVars, mailVars, rerunVars>>

\* what updateGeminiPool returns: the final listing's length, nothing else
UpdatePoolResult(added, finalAccounts) ==
  Object([totalCount |-> Len(finalAccounts)])

\* the end of updateGeminiPool: the result of addAllAccounts is dropped,
\* getPoolAccounts is called once more
UpdateFinish ==
  /\ pop = "update"
  /\ ppc = "finalList"
  /\ \/ /\ poolLog' = Append(poolLog, Call("list", 0, "ok"))
        /\ pret' = UpdatePoolResult(addResult, pool)
     \/ /\ poolLog' = Append(poolLog, Call("list", 0, "error"))
        /\ pret' = Thrown("list")
  /\ ppc' = "respond"
  /\ UNCHANGED <<pop, pool, nextPoolId, poolConfig, accounts, pidx,
                 deletedCount, addedCount, skippedCount, validCount,
                 invalidCount, addResult, response>>
  /\ UNCHANGED <<driverVars, refreshVars, extractVars, mailVars, rerunVars>>

(***************************************************************************)
(* cleanInvalidAccounts                                                    *)
(***************************************************************************)
\* loadGeminiMailConfig() and the password check
CleanBegin ==
  /\ pop = "none"
  /\ pop' = "clean"
  /\ poolConfig' = fileConfig
  /\ IF ~Truthy(fileConfig.password)
     THEN /\ pret' = Thrown("noPassword")
          /\ ppc' = "respond"
     ELSE /\ pret' = pret
          /\ ppc' = "login"
  /\ UNCHANGED <<pool, nextPoolId, accounts, pidx, deletedCount, addedCount,
                 skippedCount, validCount, invalidCount, addResult, poolLog,
                 response>>
  /\ UNCHANGED <<driverVars, refreshVars, extractVars, mailVars, rerunVars>>

\* const accounts = await getPoolAccounts(...); an empty pool returns zeros
CleanList ==
  /\ pop = "clean"
  /\ ppc = "list"
  /\ \/ /\ poolLog' = Append(poolLog, Call("list", 0, "ok"))
        /\ accounts' = pool
        /\ IF Len(pool) = 0
           THEN /\ ppc' = "respond"
                /\ pret' = Object([validCount |-> 0, invalidCount |-> 0])
           ELSE /\ ppc' = "test"
                /\ pret' = pret
     \/ /\ poolLog' = Append(poolLog, Call("list", 0, "error"))
        /\ accounts' = accounts
        /\ ppc' = "respond"
        /\ pret' = Thrown("list")
  /\ pidx' = 1
  /\ UNCHANGED <<pop, pool, nextPoolId, poolConfig, deletedCount, addedCount,
                 skippedCount, validCount, invalidCount, addResult, response>>
  /\ UNCHANGED <<driverVars, refreshVars, extractVars, mailVars, rerunVars>>

\* an invalidCount that counts every account whose check failed
InvalidAfterDelete_Always(count, deleted) == count + 1

\* the count cleanInvalidAccounts reports as invalidCount after a delete
InvalidAfterDelete(count, deleted) == IF deleted THEN count + 1 ELSE count

\* the end of one iteration of the loop of cleanInvalidAccounts: the next
\* account, or the return of the two counts
CleanAdvance(valid, invalid, ok) ==
  IF LoopDone(NextItem(pidx, ok), Len(accounts))
  THEN /\ ppc' = "respond"
       /\ pret' = Object([validCount |-> valid, invalidCount |-> invalid])
       /\ pidx' = pidx
  ELSE /\ ppc' = "test"
       /\ pret' = pret
       /\ pidx' = NextItem(pidx, ok)

\* const isValid = await testAccount(...), and the valid branch
CleanTest ==
  /\ pop = "clean"
  /\ ppc = "test"
  /\ \E outcome \in {"valid", "invalid", "error"} :
       /\ poolLog' = Append(poolLog, Call("test", accounts[pidx].id, outcome))
       /\ IF testAccount(outcome)
          THEN /\ validCount' = validCount + 1
               /\ CleanAdvance(validCount + 1, invalidCount, TRUE)
          ELSE /\ validCount' = validCount
               /\ ppc' = "cleanDelete"
               /\ UNCHANGED <<pret, pidx>>
  /\ UNCHANGED <<pop, pool, nextPoolId, poolConfig, accounts, deletedCount,
                 addedCount, skippedCount, invalidCount, addResult, response>>
  /\ UNCHANGED <<driverVars, refreshVars, extractVars, mailVars, rerunVars>>

\* the invalid branch: const deleted = await deleteAccount(...)
CleanDelete ==
  /\ pop = "clean"
  /\ ppc = "cleanDelete"
  /\ \E outcome \in {"ok", "notFound", "error"} :
       LET id == accounts[pidx].id
           invalid == InvalidAfterDelete(invalidCount, deleteAccount(outcome))
       IN  /\ poolLog' = Append(poolLog, Call("delete", id, outcome))
           /\ pool' = PoolAfterDelete(pool, id, outcome)
           /\ invalidCount' = invalid
           /\ CleanAdvance(validCount, invalid, deleteAccount(outcome))
  /\ UNCHANGED <<pop, nextPoolId, poolConfig, accounts, deletedCount,
                 addedCount, skippedCount, validCount, addResult, response>>
  /\ UNCHANGED <<driverVars, refreshVars, extractVars, mailVars, rerunVars>>

(***************************************************************************)
(* The route handlers POST /update-pool and POST /clean-invalid            *)
(***************************************************************************)
\* a handler that answers success whatever the operation did
RouteResponse_SwallowError(result) == [success |-> TRUE, data |-> result]

\* res.status(200).json({ success: true, message, data: result }), or
\* next(error)
RouteResponse(result) ==
  IF result.kind = "thrown"
  THEN [success |-> FALSE, data |-> result]
  ELSE [success |-> TRUE, data |-> result]

PoolRespond ==
  /\ ppc = "respond"
  /\ response' = RouteResponse(pret)
  /\ ppc' = "done"
  /\ UNCHANGED <<pop, pool, nextPoolId, poolConfig, accounts, pidx,
                 deletedCount, addedCount, skippedCount, validCount,
                 invalidCount, addResult, pret, poolLog>>
  /\ UNCHANGED <<driverVars, refreshVars, extractVars, mailVars, rerunVars>>

\* the token sets of the pool's accounts, in listing order
PoolTokens(p) == [i \in 1..Len(p) |-> p[i].tokens]

\* the operation returned its result and no pool call failed
RunSucceeded ==
  /\ pret.kind = "object"
  /\ \A i \in 1..Len(poolLog) : poolLog[i].outcome \in {"ok", "valid"}

\* POST /update-pool has been answered after an update in which every pool
\* call succeeded, and the next request to the routes starts with fresh locals
PoolRestart ==
  /\ ppc = "done"
  /\ pop = "update"
  /\ RunSucceeded
  /\ runs + 1 < MaxRuns
  /\ runs' = runs + 1
  /\ firstPool' = IF runs = 0 THEN PoolTokens(pool) ELSE firstPool
  /\ pop' = "none"
  /\ ppc' = "idle"
  /\ poolConfig' = fileConfig
  /\ accounts' = << >>
  /\ pidx' = 1
  /\ deletedCount' = 0
  /\ addedCount' = 0
  /\ skippedCount' = 0
  /\ validCount' = 0
  /\ invalidCount' = 0
  /\ addResult' = Undefined
  /\ pret' = Running
  /\ poolLog' = << >>
  /\ response' = [success |-> FALSE, data |-> Running]
  /\ UNCHANGED <<pool, nextPoolId>>
  /\ UNCHANGED <<driverVars, refreshVars, extractVars, mailVars>>

PoolNext ==
  \/ UpdatePoolBegin
  \/ PoolLogin
  \/ DeleteAllList
  \/ DeleteNext
  \/ AddNext
  \/ AddFinish
  \/ UpdateFinish
  \/ CleanBegin
  \/ CleanList
  \/ CleanTest
  \/ CleanDelete
  \/ PoolRespond

(***************************************************************************)
(* The mail service (src/services/emailService.js): the provider's account *)
(* list, the snapshot of it in temp-mail.yaml                              *)
(***************************************************************************)
LoginEmail == "login@mail"

MailAccount(email, accountId) == [email |-> email, accountId |-> accountId]

\* the accounts the provider may list
ProviderAccounts ==
  { MailAccount(LoginEmail, "1"), MailAccount("a@mail", "2"),
    MailAccount("b@mail", "3"), MailAccount(LoginEmail, "4") }

ProviderLists ==
  UNION { [1..n -> ProviderAccounts] : n \in 0..MaxProvider }

\* the parent splitAccounts makes up when no entry has the login email
SynthesizedParent(loginMail) == MailAccount(loginMail, Null)

\* a split that leaves the parent among the children
splitAccounts_ParentStays(list, loginMail) ==
  [parent |-> IF \E i \in 1..Len(list) : list[i].email = loginMail
              THEN list[CHOOSE i \in 1..Len(list) : list[i].email = loginMail]
              ELSE SynthesizedParent(loginMail),
   children |-> list]

\* a split that makes up a parent with the first entry's accountId
splitAccounts_BorrowedId(list, loginMail) ==
  [parent |-> IF Len(list) > 0 THEN MailAccount(loginMail, list[1].accountId)
              ELSE SynthesizedParent(loginMail),
   children |-> list]

\* let parent = null
NoParent == MailAccount(Null, Null)

\* the loop of splitAccounts from item i on, with its two accumulators
RECURSIVE SplitFrom(_, _, _, _, _)
SplitFrom(list, loginMail, i, parent, children) ==
  IF i > Len(list)
  THEN [parent |-> parent, children |-> children]
  ELSE IF parent = NoParent /\ list[i].email = loginMail
       THEN SplitFrom(list, loginMail, i + 1, list[i], children)
       ELSE SplitFrom(list, loginMail, i + 1, parent, Append(children, list[i]))

\* splitAccounts(list, loginEmail)
splitAccounts(list, loginMail) ==
  LET split == SplitFrom(list, loginMail, 1, NoParent, << >>)
  IN  IF split.parent = NoParent
      THEN [parent |-> SynthesizedParent(loginMail), children |-> split.children]
      ELSE split

Returned(v) == [kind |-> "value", value |-> v]

(***************************************************************************)
(* POST /api/email/accounts/batch (src/unnamed/part_001)                   *)
(***************************************************************************)
\* the locals of the handler before the request
NoBatch == [i |-> 0, calls |-> << >>, accounts |-> << >>, errors |-> << >>]

Min(a, b) == IF a < b THEN a ELSE b

\* a handler that starts every call of the request at once
BatchEnd_WholeRequest(i, count) == count

\* const batchEnd = Math.min(i + concurrencyLimit, count)
BatchEnd(i, count) == Min(i + concurrencyLimit, count)

\* the promises of the request, indexed from 1 for j = 0, 1, ...: those of
\* the wave that starts at i are pending, the later ones not yet made
StartWave(calls, i, count) ==
  [k \in 1..count |->
     IF k - 1 >= i /\ k - 1 < BatchEnd(i, count) THEN "pending" ELSE calls[k]]

\* the indices of the wave at i whose call ended as outcome, in order
RECURSIVE WaveResults(_, _, _, _)
WaveResults(calls, j, batchEnd, outcome) ==
  IF j >= batchEnd THEN << >>
  ELSE (IF calls[j + 1] = outcome THEN <<j>> ELSE << >>)
         \o WaveResults(calls, j + 1, batchEnd, outcome)

\* the accounts the provider lists once the calls have ended as they did
BatchProvider(calls) ==
  LET oks == SelectSeq([k \in 1..Len(calls) |-> k], LAMBDA k : calls[k] = "ok")
  IN  [n \in 1..Len(oks) |-> MailAccount("new@mail", oks[n] - 1)]

\* the request passes validation and the first wave of calls is made
BatchBegin ==
  /\ mpc = "idle"
  /\ mpc' = "wave"
  /\ mop' = "createBatch"
  /\ batch' = [i |-> 0,
               calls |-> StartWave([k \in 1..marg |-> "unstarted"], 0, marg),
               accounts |-> << >>, errors |-> << >>]
  /\ UNCHANGED <<marg, mret, provider, snapshot, inboxRequests>>
  /\ UNCHANGED <<driverVars, refreshVars, extractVars, poolVars>>

\* one createEmailAccount call of the wave settles: then() or catch()
BatchSettle ==
  /\ mpc = "wave"
  /\ \E k \in 1..Len(batch.calls), outcome \in {"ok", "failed"} :
       /\ batch.calls[k] = "pending"
       /\ batch' = [batch EXCEPT !.calls[k] = outcome]
       /\ provider' = BatchProvider(batch'.calls)
  /\ UNCHANGED <<mpc, mop, marg, mret, snapshot, inboxRequests>>
  /\ UNCHANGED <<driverVars, refreshVars, extractVars, poolVars>>

\* Promise.all(batch) resolves: results.forEach, i += concurrencyLimit, and
\* either the calls of the next wave or the 201 response
BatchWaveDone ==
  /\ mpc = "wave"
  /\ \A k \in 1..Len(batch.calls) : batch.calls[k] # "pending"
  /\ LET batchEnd == BatchEnd(batch.i, marg)
         created == batch.accounts
                       \o WaveResults(batch.calls, batch.i, batchEnd, "ok")
         failed == batch.errors
                     \o WaveResults(batch.calls, batch.i, batchEnd, "failed")
         i == batch.i + concurrencyLimit
     IN  IF i < marg
         THEN /\ batch' = [i |-> i, calls |-> StartWave(batch.calls, i, marg),
                           accounts |-> created, errors |-> failed]
              /\ UNCHANGED <<mpc, mret>>
         ELSE /\ batch' = [batch EXCEPT !.i = i, !.accounts = created,
                                        !.errors = failed]
              /\ mpc' = "done"
              /\ mret' = Returned([totalRequested |-> marg,
                                   totalCreated |-> Len(created),
                                   totalFailed |-> Len(failed)])
  /\ UNCHANGED <<mop, marg, provider, snapshot, inboxRequests>>
  /\ UNCHANGED <<driverVars, refreshVars, extractVars, poolVars>>

BatchNext == BatchBegin \/ BatchSettle \/ BatchWaveDone

InitMailIdle ==
  /\ mpc = "off"
  /\ mop = "none"
  /\ marg = << >>
  /\ mret = Running
  /\ provider = << >>
  /\ snapshot = splitAccounts(<< >>, LoginEmail)
  /\ inboxRequests = 0
  /\ batch = NoBatch

\* getAllEmailAccounts(token): the list request, splitAccounts, the snapshot
\* written to temp-mail.yaml, the return of { parent, children }
ListAccounts ==
  /\ mpc = "idle"
  /\ mpc' = "done"
  /\ mop' = "getAllEmailAccounts"
  /\ \/ /\ mret' = Returned(splitAccounts(provider, LoginEmail))
        /\ snapshot' = splitAccounts(provider, LoginEmail)
     \/ /\ mret' = Thrown("list")                \* the request fails
        /\ snapshot' = snapshot
     \/ /\ mret' = Thrown("save")                \* fs.writeFileSync throws
        /\ snapshot' = snapshot
  /\ UNCHANGED <<marg, provider, inboxRequests, batch>>
  /\ UNCHANGED <<driverVars, refreshVars, extractVars, poolVars>>

\* the account the provider creates for a random new address
CreatedAccount == MailAccount("new@mail", "9")

\* createEmailAccount(token): the add request, the return of the account data
CreateAccount ==
  /\ mpc = "idle"
  /\ mpc' = "done"
  /\ mop' = "createEmailAccount"
  /\ \/ /\ provider' = Append(provider, CreatedAccount)
        /\ mret' = Returned(CreatedAccount)
     \/ /\ provider' = provider
        /\ mret' = Thrown("create")
  /\ UNCHANGED <<marg, snapshot, inboxRequests, batch>>
  /\ UNCHANGED <<driverVars, refreshVars, extractVars, poolVars>>

\* deleteEmailAccount(token, accountId): the delete request, the return of
\* the provider's answer
DeleteAccount ==
  /\ mpc = "idle"
  /\ mpc' = "done"
  /\ mop' = "deleteEmailAccount"
  /\ \E k \in 1..Len(provider) :
       /\ marg' = provider[k].accountId
       /\ \/ /\ provider' = SelectSeq(provider,
                              LAMBDA a : a.accountId # provider[k].accountId)
             /\ mret' = Returned("deleted")
          \/ /\ provider' = provider
             /\ mret' = Thrown("delete")
  /\ UNCHANGED <<snapshot, inboxRequests, batch>>
  /\ UNCHANGED <<driverVars, refreshVars, extractVars, poolVars>>

(***************************************************************************)
(* getLatestVerificationCode (src/services/emailService.js).  A subject is *)
(* a sequence of tokens: "KEY" one of the three phrases of the pattern,    *)
(* "SP" a whitespace character, a digit, or any other word.                *)
(***************************************************************************)
DigitString == <<"0", "1", "2", "3", "4", "5", "6", "7", "8", "9">>
DigitChars == { DigitString[d] : d \in 1..Len(DigitString) }

\* the position after the whitespace run that starts at p
RECURSIVE SkipSpaces(_, _)
SkipSpaces(subject, p) ==
  IF p <= Len(subject) /\ subject[p] = "SP" THEN SkipSpaces(subject, p + 1) ELSE p

\* the pattern of extractVerificationCode matches with its phrase at p
SubjectMatchAt(subject, p) ==
  /\ subject[p] = "KEY"
  /\ LET q == SkipSpaces(subject, p + 1)
     IN  /\ q + 5 <= Len(subject)
         /\ \A k \in q..(q + 5) : subject[k] \in DigitChars

\* extractVerificationCode(subject): the group of the leftmost match, or null
extractVerificationCode(subject) ==
  LET ps == { p \in 1..Len(subject) : SubjectMatchAt(subject, p) }
  IN  IF ps = {} THEN NoCode
      ELSE LET p == CHOOSE p \in ps : \A o \in ps : p <= o
               q == SkipSpaces(subject, p + 1)
           IN  SubSeq(subject, q, q + 5)

SubjectSpaced == <<"word", "KEY", "SP", "1", "2", "3", "4", "5", "6">>
SubjectTight == <<"KEY", "6", "5", "4", "3", "2", "1", "word">>
SubjectShort == <<"KEY", "SP", "1", "2", "3", "4", "5">>
SubjectNoPhrase == <<"word", "1", "2", "3", "4", "5", "6">>
Subjects == { SubjectSpaced, SubjectTight, SubjectShort, SubjectNoPhrase }

\* the pages getEmailList can answer with: mails in list order
InboxPages ==
  UNION { [1..n -> [subject : Subjects, createTime : {"t"}]] : n \in 0..MaxInbox }

VerificationInfo(email) ==
  [code |-> extractVerificationCode(email.subject), time |-> email.createTime,
   subject |-> email.subject]

\* return null of findLatestVerificationCode
NoVerificationInfo == [code |-> NoCode, time |-> Null, subject |-> << >>]

\* a scan that keeps the last matching mail
RECURSIVE findLatestVerificationCode_LastMatch(_)
findLatestVerificationCode_LastMatch(emailList) ==
  IF Len(emailList) = 0 THEN NoVerificationInfo
  ELSE IF extractVerificationCode(emailList[Len(emailList)].subject) # NoCode
       THEN VerificationInfo(emailList[Len(emailList)])
       ELSE findLatestVerificationCode_LastMatch(
              SubSeq(emailList, 1, Len(emailList) - 1))

\* findLatestVerificationCode(emailList): the first mail of the list whose
\* subject holds a code, or null
RECURSIVE findLatestVerificationCode(_)
findLatestVerificationCode(emailList) ==
  IF Len(emailList) = 0 THEN NoVerificationInfo
  ELSE IF extractVerificationCode(Head(emailList).subject) # NoCode
       THEN VerificationInfo(Head(emailList))
       ELSE findLatestVerificationCode(Tail(emailList))

\* the answers of getEmailList(token, accountId, 10)
ListAnswers ==
  {[kind |-> "thrown"], [kind |-> "nolist"]}
    \cup { [kind |-> "page", list |-> l] : l \in InboxPages }

\* getLatestVerificationCode(token, accountId)
GetLatestVerificationCode ==
  /\ mpc = "idle"
  /\ mpc' = "done"
  /\ mop' = "getLatestVerificationCode"
  /\ inboxRequests' = inboxRequests + 1
  /\ \E answer \in ListAnswers :
       /\ marg' = answer
       /\ mret' = IF answer.kind = "thrown" THEN Thrown("list")
                  ELSE IF answer.kind = "nolist" \/ Len(answer.list) = 0
                       THEN Thrown("noMail")
                  ELSE IF findLatestVerificationCode(answer.list) = NoVerificationInfo
                       THEN Thrown("noCodeMail")
                  ELSE Returned(findLatestVerificationCode(answer.list))
  /\ UNCHANGED <<provider, snapshot, batch>>
  /\ UNCHANGED <<driverVars, refreshVars, extractVars, poolVars>>

\* the mail texts handed to the extractor: an optional marker phrase, a run
\* of whitespace, a run of alphanumeric characters, the rest of the text
AlnumRun(n) == [i \in 1..n |-> <<"A", "b", "7">>[((i - 1) % 3) + 1]]
Gaps == UNION { [1..n -> Whitespace] : n \in 0..MaxGap }
VerificationTexts ==
  [prefix : {<< >>, <<".">>},
   marker : {<< >>, <<"MARK">>},
   gap    : Gaps,
   run    : { AlnumRun(n) : n \in 0..MaxAlnumRun },
   rest   : {<< >>, <<".">>, <<"SP", "A">>}]

TextOf(t) == t.prefix \o t.marker \o t.gap \o t.run \o t.rest

\* extractGeminiVerificationCode(text) called on a mail text
ExtractCode ==
  /\ mpc = "idle"
  /\ mpc' = "done"
  /\ mop' = "extractGeminiVerificationCode"
  /\ mret' = Returned(extractGeminiVerificationCode(TextOf(marg)))
  /\ UNCHANGED <<marg, provider, snapshot, inboxRequests, batch>>
  /\ UNCHANGED <<driverVars, refreshVars, extractVars, poolVars>>

MailNext ==
  \/ ListAccounts
  \/ CreateAccount
  \/ DeleteAccount
  \/ GetLatestVerificationCode

(***************************************************************************)
(* selectBusinessAccounts (src/services/geminiService.js)                  *)
(***************************************************************************)
\* String(n) in base ten
RECURSIVE NumberToString(_)
NumberToString(n) ==
  IF n < 10 THEN <<DigitString[n + 1]>>
  ELSE Append(NumberToString(n \div 10), DigitString[(n % 10) + 1])

DigitValue(c) == (CHOOSE d \in 1..Len(DigitString) : DigitString[d] = c) - 1

RECURSIVE ParseDigits(_, _, _)
ParseDigits(str, i, acc) ==
  IF i > Len(str) \/ str[i] \notin DigitChars THEN acc
  ELSE ParseDigits(str, i + 1, acc * 10 + DigitValue(str[i]))

\* parseInt(id, 10) of a number: its decimal string, parsed
parseInt(id) == ParseDigits(NumberToString(id), 1, 0)

\* an index that takes the id as it is
SelectIndex_ZeroBased(id) == parseInt(id)

\* const index = parseInt(id, 10) - 1
SelectIndex(id) == parseInt(id) - 1

\* a loop that gives up the rest of the ids at the first one out of range
RECURSIVE SelectedChildren_StopAtInvalid(_, _)
SelectedChildren_StopAtInvalid(children, ids) ==
  IF Len(ids) = 0 THEN << >>
  ELSE LET index == parseInt(Head(ids)) - 1
       IN  IF index >= 0 /\ index < Len(children)
           THEN <<children[index + 1]>>
                  \o SelectedChildren_StopAtInvalid(children, Tail(ids))
           ELSE << >>

\* a save that adds the selection to the children the config already holds
NewGeminiConfig_KeepChildren(config, parent, selectedChildren) ==
  [config EXCEPT !.parent = parent,
                 !.children = config.children \o selectedChildren]

\* newGeminiConfig: { ...geminiConfig, accounts: { parent, children } }
NewGeminiConfig(config, parent, selectedChildren) ==
  [config EXCEPT !.parent = parent, !.children = selectedChildren]

\* the loop that fills selectedChildren
RECURSIVE SelectedChildren(_, _)
SelectedChildren(children, ids) ==
  IF Len(ids) = 0 THEN << >>
  ELSE LET index == SelectIndex(Head(ids))
           rest == SelectedChildren(children, Tail(ids))
       IN  IF index >= 0 /\ index < Len(children)
           THEN <<children[index + 1]>> \o rest
           ELSE rest

\* selectBusinessAccounts(accountIds)
SelectBusinessAccounts ==
  /\ mpc = "idle"
  /\ mpc' = "done"
  /\ mop' = "selectBusinessAccounts"
  /\ LET children == snapshot.children
         selectedChildren == SelectedChildren(children, marg)
     IN  \/ /\ Len(children) = 0
            /\ mret' = Thrown("noChildren")
            /\ UNCHANGED <<fileConfig, configWrites>>
         \/ /\ Len(children) # 0
            /\ Len(selectedChildren) = 0
            /\ mret' = Thrown("noneSelected")
            /\ UNCHANGED <<fileConfig, configWrites>>
         \/ /\ Len(children) # 0
            /\ Len(selectedChildren) # 0
            /\ configWrites' = configWrites + 1
            /\ \/ /\ fileConfig' = NewGeminiConfig(fileConfig, snapshot.parent,
                                                   selectedChildren)
                  /\ mret' = Returned(selectedChildren)
               \/ /\ fileConfig' = fileConfig     \* fs.writeFileSync throws
                  /\ mret' = Thrown("save")
  /\ UNCHANGED <<marg, provider, snapshot, inboxRequests, batch>>
  /\ UNCHANGED <<rpc, loginEmail, geminiConfig, ri, successCount, failureCount,
                 rret, driverCalls>>
  /\ UNCHANGED <<driverVars, extractVars, poolVars>>

TempChild(accountId) == MailAccount("c" \o accountId \o "@mail", accountId)
ThreeChildren == <<TempChild("1"), TempChild("3"), TempChild("5")>>
FiveChildren ==
  <<TempChild("1"), TempChild("3"), TempChild("5"), TempChild("7"), TempChild("9")>>

\* the children lists temp-mail.yaml may hold
TempChildLists == { << >>, ThreeChildren, FiveChildren }

\* the id lists accountIdsSchema accepts: positive integers, at least one
AcceptedIds == (1..MaxPosition) \cup {12}
AcceptedIdLists == UNION { [1..n -> AcceptedIds] : n \in 1..MaxIds }

(***************************************************************************)
(* getLoginTokens on its own: every cookie jar and URL of the model        *)
(***************************************************************************)
InitExtractIdle ==
  /\ xpc = "idle"
  /\ xjar = [secure |-> Absent, host |-> Absent]
  /\ xurl = NoUrl
  /\ xres = Running

CallGetLoginTokens ==
  /\ xpc = "input"
  /\ xres' = getLoginTokens(xjar, xurl)
  /\ xpc' = "done"
  /\ UNCHANGED <<xjar, xurl>>
  /\ UNCHANGED <<driverVars, refreshVars, poolVars, mailVars>>

InitPoolIdle ==
  /\ pop = "none"
  /\ ppc = "idle"
  /\ pool = << >>
  /\ nextPoolId = 1
  /\ poolConfig = Config(ParentEmail, << >>, "secret")
  /\ accounts = << >>
  /\ pidx = 1
  /\ deletedCount = 0
  /\ addedCount = 0
  /\ skippedCount = 0
  /\ validCount = 0
  /\ invalidCount = 0
  /\ addResult = Undefined
  /\ pret = Running
  /\ poolLog = << >>
  /\ response = [success |-> FALSE, data |-> Running]
  /\ runs = 0
  /\ firstPool = << >>

InitRefreshIdle ==
  /\ rpc = "idle"
  /\ loginEmail = ParentEmail
  /\ fileConfig = Config(ParentEmail, << >>, "secret")
  /\ geminiConfig = fileConfig
  /\ ri = 1
  /\ successCount = 0
  /\ failureCount = 0
  /\ rret = Running
  /\ driverCalls = << >>
  /\ configWrites = 0

InitDriverIdle ==
  /\ dpc = "idle"
  /\ proxyConfig = NoProxy
  /\ browser = "none"
  /\ openBrowsers = 0
  /\ attempt = 0
  /\ lastAnswer = NoAnswer
  /\ listRequests = 0
  /\ pollWaited = 0
  /\ verificationCode = NoCode
  /\ currentUrl = NoUrl
  /\ currentUrl1 = NoUrl
  /\ hasSeenCreate = FALSE
  /\ elapsed = 0
  /\ elapsed1 = 0
  /\ branch = "none"
  /\ dret = Running
  /\ userDataDirs = 0

InitRefresh ==
  /\ InitDriverIdle
  /\ InitMailIdle
  /\ InitExtractIdle
  /\ InitPoolIdle
  /\ rpc = "start"
  /\ loginEmail \in {ParentEmail, OtherEmail}
  /\ \E kinds \in ChildLists :
       fileConfig = Config(ParentEmail, ChildrenOf(kinds), "secret")
  /\ geminiConfig = fileConfig
  /\ ri = 1
  /\ successCount = 0
  /\ failureCount = 0
  /\ rret = Running
  /\ driverCalls = << >>
  /\ configWrites = 0

InitTokens ==
  /\ InitDriverIdle
  /\ InitMailIdle
  /\ InitRefreshIdle
  /\ InitPoolIdle
  /\ xpc = "input"
  /\ xjar \in CookieJars
  /\ xurl \in Urls
  /\ xres = Running

\* the children gemini-mail.yaml may hold when a pool operation starts: as
\* selected, as refreshed with or without the __Host-C_OSES cookie, and with
\* a skipReason key
HostlessTokens ==
  StoreTokens(getLoginTokens([secure |-> "ses1", host |-> Absent],
                             Url(<<"home", "cid", "team1">>, "idx1")))

PoolChildKinds == {"fresh", "synced", "hostless", "skipped"}

PoolChild(kind, id) ==
  CASE kind = "fresh"    -> FreshChild(id)
    [] kind = "synced"   -> SyncedChild(id)
    [] kind = "hostless" -> Child(id, TRUE, HostlessTokens, "t1", Absent)
    [] kind = "skipped"  -> [SyncedChild(id) EXCEPT !.skipReason = "manual"]

PoolChildLists ==
  UNION { [1..n -> PoolChildKinds] : n \in 0..MaxChildren }

\* the pool's accounts before the operation: ids 101, 102, ...
InitialPool(n) ==
  [i \in 1..n |-> PoolAccount(100 + i, TokenSet("idxP", "osesP", "sesP", "teamP"))]

InitPool ==
  /\ InitDriverIdle
  /\ InitMailIdle
  /\ InitExtractIdle
  /\ rpc = "idle"
  /\ loginEmail = ParentEmail
  /\ \E kinds \in PoolChildLists, pw \in {"secret", ""} :
       fileConfig =
         Config(ParentEmail,
                [i \in 1..Len(kinds) |-> PoolChild(kinds[i], i)], pw)
  /\ geminiConfig = fileConfig
  /\ ri = 1
  /\ successCount = 0
  /\ failureCount = 0
  /\ rret = Running
  /\ driverCalls = << >>
  /\ configWrites = 0
  /\ pop = "none"
  /\ ppc = "idle"
  /\ \E n \in 0..MaxPool : pool = InitialPool(n)
  /\ nextPoolId = 1
  /\ poolConfig = fileConfig
  /\ accounts = << >>
  /\ pidx = 1
  /\ deletedCount = 0
  /\ addedCount = 0
  /\ skippedCount = 0
  /\ validCount = 0
  /\ invalidCount = 0
  /\ addResult = Undefined
  /\ pret = Running
  /\ poolLog = << >>
  /\ response = [success |-> FALSE, data |-> Running]
  /\ runs = 0
  /\ firstPool = << >>

vars == <<driverVars, refreshVars, extractVars, poolVars, mailVars>>

NextRefresh == RefreshNext \/ DriverNext

SpecRefresh == InitRefresh /\ [][NextRefresh]_vars

\* a refresh of children as selectBusinessAccounts has just stored them
InitRefreshSelected ==
  /\ InitRefresh
  /\ \A i \in 1..Len(fileConfig.children) : ~fileConfig.children[i].hasTokens

\* every awaited browser, mail and timer call returns or throws, and the
\* event loop then runs the continuation
SpecRefreshFair ==
  InitRefreshSelected /\ [][NextRefresh]_vars /\ WF_vars(NextRefresh)

\* a route that goes on to the pool whatever the refresh run did
RefreshAllowsSync_Always(r) == TRUE

\* GET /refresh-tokens reaches updateGeminiPool() when the awaited
\* autoRefreshGeminiTokens returned; a throw goes to the catch of the route
RefreshAllowsSync(r) == r.kind = "counts"

\* step 4 of the route: const poolResult = await updateGeminiPool()
RefreshTokensSync ==
  /\ rpc = "done"
  /\ RefreshAllowsSync(rret)
  /\ UpdatePoolBegin

\* the catch of the route: next(error)
RefreshTokensThrown ==
  /\ rpc = "done"
  /\ ~RefreshAllowsSync(rret)
  /\ pop = "none"
  /\ ppc = "idle"
  /\ ppc' = "done"
  /\ response' = RouteResponse(rret)
  /\ UNCHANGED <<pop, pool, nextPoolId, poolConfig, accounts, pidx,
                 deletedCount, addedCount, skippedCount, validCount,
                 invalidCount, addResult, pret, poolLog>>
  /\ UNCHANGED <<driverVars, refreshVars, extractVars, mailVars, rerunVars>>

NextRefreshTokens ==
  \/ RefreshNext
  \/ DriverNext
  \/ RefreshTokensSync
  \/ RefreshTokensThrown
  \/ PoolLogin
  \/ DeleteAllList
  \/ DeleteNext
  \/ AddNext
  \/ AddFinish
  \/ UpdateFinish
  \/ PoolRespond

\* GET /api/gemini/refresh-tokens, with a pool that holds one account
InitRefreshTokens ==
  /\ InitDriverIdle
  /\ InitMailIdle
  /\ InitExtractIdle
  /\ rpc = "start"
  /\ loginEmail \in {ParentEmail, OtherEmail}
  /\ \E kinds \in ChildLists :
       fileConfig = Config(ParentEmail, ChildrenOf(kinds), "secret")
  /\ geminiConfig = fileConfig
  /\ ri = 1
  /\ successCount = 0
  /\ failureCount = 0
  /\ rret = Running
  /\ driverCalls = << >>
  /\ configWrites = 0
  /\ pop = "none"
  /\ ppc = "idle"
  /\ pool = InitialPool(1)
  /\ nextPoolId = 1
  /\ poolConfig = fileConfig
  /\ accounts = << >>
  /\ pidx = 1
  /\ deletedCount = 0
  /\ addedCount = 0
  /\ skippedCount = 0
  /\ validCount = 0
  /\ invalidCount = 0
  /\ addResult = Undefined
  /\ pret = Running
  /\ poolLog = << >>
  /\ response = [success |-> FALSE, data |-> Running]
  /\ runs = 0
  /\ firstPool = << >>

SpecRefreshTokens == InitRefreshTokens /\ [][NextRefreshTokens]_vars

\* POST /select-accounts handled while a refresh run is waiting at one of
\* its awaits
SelectDuringRefresh ==
  /\ rpc \in {"awaitDriver", "delay"}
  /\ SelectBusinessAccounts

NextInterleaved == RefreshNext \/ DriverNext \/ SelectDuringRefresh

InitInterleaved ==
  /\ InitDriverIdle
  /\ InitExtractIdle
  /\ InitPoolIdle
  /\ rpc = "start"
  /\ loginEmail = ParentEmail
  /\ \E kinds \in ChildLists :
       fileConfig = Config(ParentEmail, ChildrenOf(kinds), "secret")
  /\ geminiConfig = fileConfig
  /\ ri = 1
  /\ successCount = 0
  /\ failureCount = 0
  /\ rret = Running
  /\ driverCalls = << >>
  /\ configWrites = 0
  /\ mpc = "idle"
  /\ mop = "none"
  /\ marg \in {<<1>>, <<2, 1>>}
  /\ mret = Running
  /\ provider = << >>
  /\ snapshot = [parent |-> MailAccount(LoginEmail, "0"), children |-> ThreeChildren]
  /\ inboxRequests = 0
  /\ batch = NoBatch

SpecInterleaved == InitInterleaved /\ [][NextInterleaved]_vars

\* POST /accounts/batch with a count the validation accepts
InitBatch ==
  /\ InitDriverIdle
  /\ InitRefreshIdle
  /\ InitExtractIdle
  /\ InitPoolIdle
  /\ mpc = "idle"
  /\ mop = "none"
  /\ marg \in 1..Min(MaxCount, maxBatchCount)
  /\ mret = Running
  /\ provider = << >>
  /\ snapshot = splitAccounts(<< >>, LoginEmail)
  /\ inboxRequests = 0
  /\ batch = NoBatch

NextBatch == BatchNext

SpecBatch == InitBatch /\ [][NextBatch]_vars

NextTokens == CallGetLoginTokens

SpecTokens == InitTokens /\ [][NextTokens]_vars

InitMail ==
  /\ InitDriverIdle
  /\ InitRefreshIdle
  /\ InitExtractIdle
  /\ InitPoolIdle
  /\ mpc = "idle"
  /\ mop = "none"
  /\ marg = << >>
  /\ mret = Running
  /\ provider \in ProviderLists
  /\ snapshot = splitAccounts(provider, LoginEmail)
  /\ inboxRequests = 0
  /\ batch = NoBatch

NextMail == MailNext

SpecMail == InitMail /\ [][NextMail]_vars

\* the children gemini-mail.yaml holds before the selection
PreviousChildren == { << >>, <<SyncedChild(1), FreshChild(2)>> }

InitSelect ==
  /\ InitDriverIdle
  /\ InitExtractIdle
  /\ InitPoolIdle
  /\ rpc = "idle"
  /\ loginEmail = ParentEmail
  /\ \E children \in PreviousChildren, pw \in {"secret", ""} :
       fileConfig = Config(ParentEmail, children, pw)
  /\ geminiConfig = fileConfig
  /\ ri = 1
  /\ successCount = 0
  /\ failureCount = 0
  /\ rret = Running
  /\ driverCalls = << >>
  /\ configWrites = 0
  /\ mpc = "idle"
  /\ mop = "none"
  /\ marg \in AcceptedIdLists
  /\ mret = Running
  /\ provider = << >>
  /\ \E children \in TempChildLists :
       snapshot = [parent |-> MailAccount(LoginEmail, "0"), children |-> children]
  /\ inboxRequests = 0
  /\ batch = NoBatch

NextSelect == SelectBusinessAccounts

SpecSelect == InitSelect /\ [][NextSelect]_vars

InitExtract ==
  /\ InitDriverIdle
  /\ InitRefreshIdle
  /\ InitExtractIdle
  /\ InitPoolIdle
  /\ mpc = "idle"
  /\ mop = "none"
  /\ marg \in VerificationTexts
  /\ mret = Running
  /\ provider = << >>
  /\ snapshot = splitAccounts(<< >>, LoginEmail)
  /\ inboxRequests = 0
  /\ batch = NoBatch

NextExtract == ExtractCode

SpecExtract == InitExtract /\ [][NextExtract]_vars

NextPool == PoolNext

SpecPool == InitPool /\ [][NextPool]_vars

\* the pool routes called one request after another
NextPoolAgain == PoolNext \/ PoolRestart

SpecPoolAgain == InitPool /\ [][NextPoolAgain]_vars

(***************************************************************************)
(* Claims                                                                  *)
(***************************************************************************)
AllFourPopulated(t) ==
  /\ Truthy(t.csesidx)
  /\ Truthy(t.host_c_oses)
  /\ Truthy(t.secure_c_ses)
  /\ Truthy(t.team_id)

\* C1: a run of loginGeminiChild either returns a token object with all four
\* fields non-empty or throws; it never completes normally without tokens or
\* with an empty field.  (SpecRefresh; violated: a getLoginTokens error is
\* swallowed and the run returns undefined.)
C1_TokensOrThrow ==
  dpc = "done" =>
    \/ dret.kind = "thrown"
    \/ dret.kind = "tokens" /\ AllFourPopulated(dret)

\* the four values getLoginTokens looks for, as the page offers them
SecureLocated == xjar.secure # Absent
HostLocated == xjar.host # Absent
CsesidxLocated == xurl.csesidx # Absent
TeamLocated == CidMatches(xurl) # {}

\* C2: getLoginTokens fails, returning no object, whenever any one of the
\* __Secure-C_SES cookie, the __Host-C_OSES cookie, the csesidx parameter or
\* the segment after /cid/ cannot be located.  (SpecTokens; violated: a page
\* without the __Host-C_OSES cookie yields an object with host_c_oses '')
C2_MissingFieldFails ==
  (xpc = "done"
     /\ ~(SecureLocated /\ HostLocated /\ CsesidxLocated /\ TeamLocated))
  => xres.kind = "thrown"

\* C3: when loginGeminiChild has returned or thrown, a browser it launched
\* has been closed, whichever step ended the run.  (SpecRefresh)
C3_BrowserClosedOnExit ==
  dpc = "done" => browser # "open"

\* a run that launched the browser and failed at the verification-code poll
C3_Witness ==
  dpc = "done" /\ browser = "closed" /\ dret = Thrown("codeTimeout")

\* what a call that never got past its preconditions has touched: nothing
NoDriverActivity ==
  /\ driverCalls = << >>
  /\ dpc = "idle"
  /\ browser = "none"
  /\ userDataDirs = 0
  /\ configWrites = 0
  /\ rpc \in {"start", "done"}

\* C4 as stated: autoRefreshGeminiTokens called with a loginEmail other than
\* the parent's fails with the mismatch error, never invoking the driver and
\* never writing the config.  (SpecRefresh; violated: with no children
\* configured the call fails with the no-children error instead.)
C4_MismatchError ==
  loginEmail # fileConfig.parent.email =>
    /\ NoDriverActivity
    /\ rpc = "done" => rret = Thrown("parentMismatch")

\* C4 amended: such a call fails with the mismatch error when at least one
\* child is configured and with the no-children error otherwise; in both
\* cases without invoking the driver, any browser or mail activity, or a
\* config write.  (SpecRefresh)
C4_MismatchFailsBeforeDriver ==
  loginEmail # fileConfig.parent.email =>
    /\ NoDriverActivity
    /\ rpc = "done" =>
         rret = Thrown(IF Len(fileConfig.children) = 0 THEN "noChildren"
                                                      ELSE "parentMismatch")

\* a mismatched call over a non-empty child list that has failed
C4_Witness ==
  /\ rpc = "done"
  /\ loginEmail = OtherEmail
  /\ Len(fileConfig.children) > 0
  /\ rret = Thrown("parentMismatch")

\* the children 1..k in list order
FirstChildren(k) == [i \in 1..k |-> i]

\* children the run has given new tokens
Refreshed == { i \in 1..Len(geminiConfig.children) :
                 geminiConfig.children[i].lastUpdated = "t1" }

\* C5: in a run that passed the parent check every child is attempted exactly
\* once, in list order, whatever happened to the earlier ones; a failing
\* child changes nothing but failureCount, and on return successCount +
\* failureCount is the number of children.  (SpecRefresh)
C5_EveryChildAttemptedOnce ==
  LET n == Len(geminiConfig.children)
  IN  /\ rpc \in {"loop", "delay"} =>
           /\ driverCalls = FirstChildren(ri - 1)
           /\ successCount + failureCount = ri - 1
      /\ rpc = "awaitDriver" =>
           /\ driverCalls = FirstChildren(ri)
           /\ successCount + failureCount = ri - 1
      /\ rpc \in {"loop", "delay", "awaitDriver"} =>
           /\ successCount = Cardinality(Refreshed)
           /\ \A i \in (1..n) \ Refreshed :
                geminiConfig.children[i] = fileConfig.children[i]
      /\ (rpc = "done" /\ rret.kind = "counts") =>
           /\ driverCalls = FirstChildren(n)
           /\ rret.successCount + rret.failureCount = n
           /\ rret.successCount = Cardinality(Refreshed)

\* a finished run whose first child ended without tokens (the driver returned
\* undefined) and whose second child was still attempted and refreshed
C5_Witness ==
  /\ rpc = "done"
  /\ rret.kind = "counts"
  /\ rret.failureCount >= 1
  /\ Len(geminiConfig.children) >= 2
  /\ 1 \notin Refreshed
  /\ 2 \in Refreshed

\* the calls of one kind made to the pool service, in order
CallsOf(op) == SelectSeq(poolLog, LAMBDA e : e.op = op)

CallsFor(op, id) == SelectSeq(poolLog, LAMBDA e : e.op = op /\ e.arg = id)

\* cleanInvalidAccounts has returned its counts
CleanReturned ==
  pop = "clean" /\ ppc \in {"respond", "done"} /\ pret.kind = "object"

\* K: the health checks that did not report success
FailedChecks == SelectSeq(poolLog, LAMBDA e : e.op = "test" /\ e.outcome # "valid")

\* the delete calls that reported success
SuccessfulDeletes ==
  SelectSeq(poolLog, LAMBDA e : e.op = "delete" /\ e.outcome # "error")

\* C6 as stated: cleanInvalid over N accounts of which K fail the check
\* returns validCount = N-K and invalidCount = K and issues K delete calls,
\* whatever the delete calls answer.  (SpecPool; violated: a delete that
\* fails is not counted.)
C6_CountsAsStated ==
  CleanReturned =>
    /\ pret.obj.validCount = Len(accounts) - Len(FailedChecks)
    /\ pret.obj.invalidCount = Len(FailedChecks)
    /\ Len(CallsOf("delete")) = Len(FailedChecks)

\* C6 amended: validCount = N-K and exactly K delete calls are issued;
\* invalidCount is the number of those delete calls that reported success,
\* which is K when every delete succeeds.  (SpecPool)
C6_CountsDeleted ==
  CleanReturned =>
    /\ pret.obj.validCount = Len(accounts) - Len(FailedChecks)
    /\ Len(CallsOf("delete")) = Len(FailedChecks)
    /\ pret.obj.invalidCount = Len(SuccessfulDeletes)
    /\ Len(SuccessfulDeletes) = Len(FailedChecks) =>
         pret.obj.invalidCount = Len(FailedChecks)

\* a run over two accounts, one valid, one invalid whose delete failed
C6_Witness ==
  /\ CleanReturned
  /\ Len(accounts) = 2
  /\ Len(FailedChecks) = 1
  /\ Len(SuccessfulDeletes) = 0

\* C7: cleanInvalid health-checks every enumerated account exactly once and
\* issues a delete for an account if and only if its check did not report
\* success (a check that errors included); an account that passed is never
\* deleted.  (SpecPool)
C7_DeleteIffCheckFailed ==
  pop = "clean" =>
    /\ \A i \in 1..Len(poolLog) :
         poolLog[i].op \in {"test", "delete"} =>
           \E k \in 1..Len(accounts) : accounts[k].id = poolLog[i].arg
    /\ \A k \in 1..Len(accounts) :
         LET tests == CallsFor("test", accounts[k].id)
             dels  == CallsFor("delete", accounts[k].id)
         IN  /\ Len(tests) <= 1
             /\ Len(dels) <= 1
             /\ Len(dels) = 1 => (Len(tests) = 1 /\ tests[1].outcome # "valid")
             /\ CleanReturned =>
                  /\ Len(tests) = 1
                  /\ (Len(dels) = 1) <=> (tests[1].outcome # "valid")

\* a finished run in which one check errored (and its account was deleted)
\* and one check passed (and its account was not)
C7_Witness ==
  /\ CleanReturned
  /\ \E i, j \in 1..Len(poolLog) :
       /\ poolLog[i].op = "test" /\ poolLog[i].outcome = "error"
       /\ poolLog[j].op = "delete" /\ poolLog[j].arg = poolLog[i].arg
  /\ \E i \in 1..Len(poolLog) :
       /\ poolLog[i].op = "test" /\ poolLog[i].outcome = "valid"
       /\ CallsFor("delete", poolLog[i].arg) = << >>

\* a complete token set and no skipReason
Syncable(child) ==
  /\ child.hasTokens
  /\ AllFourPopulated(child.tokens)
  /\ ~Truthy(child.skipReason)

\* addAllAccounts has gone through every child
AddPhaseOver ==
  pop = "update" /\ addResult.kind = "object"

\* C8: updatePool issues an add call for a child if and only if the child
\* has all four tokens non-empty and no skipReason; every other child gets no
\* add call and is counted in skippedCount.  (SpecPool; violated: a child
\* whose stored host_c_oses is '' is posted to the pool.)
C8_AddIffComplete ==
  AddPhaseOver =>
    /\ \A i \in 1..Len(fileConfig.children) :
         (CallsFor("add", i) # << >>) <=> Syncable(fileConfig.children[i])
    /\ addResult.obj.skippedCount =
         Cardinality({ i \in 1..Len(fileConfig.children) :
                         ~Syncable(fileConfig.children[i]) })

\* C9: whenever updatePool completes without throwing it returns an object
\* carrying addedCount, skippedCount and totalCount, and the route answers
\* with that object.  (SpecPool; violated: the object holds totalCount only,
\* and without children nothing is returned.)
C9_ResultCarriesCounts ==
  (pop = "update" /\ ppc \in {"respond", "done"} /\ pret.kind # "thrown") =>
    /\ pret.kind = "object"
    /\ {"addedCount", "skippedCount", "totalCount"} \subseteq DOMAIN pret.obj
    /\ ppc = "done" => response.data = pret

\* C10: in updatePool the login completes before any other pool call; a
\* delete is attempted, one after another and in listing order, for every
\* account the enumeration returned; the first add call comes only after the
\* last of those deletes.  (SpecPool)
C10_LoginDeleteAddOrder ==
  pop = "update" =>
    LET dels == CallsOf("delete")
        n == Len(accounts)
    IN  /\ \A i \in 1..Len(poolLog) : (poolLog[i].op = "login") <=> (i = 1)
        /\ Len(poolLog) > 1 => poolLog[1].outcome = "ok"
        /\ Len(dels) <= n
        /\ \A k \in 1..Len(dels) : dels[k].arg = accounts[k].id
        /\ dels # << >> =>
             /\ poolLog[2] = Call("list", 0, "ok")
             /\ accounts = InitialPool(n)
        /\ \A i, j \in 1..Len(poolLog) :
             (i < j /\ poolLog[i].op = "add") => poolLog[j].op # "delete"
        /\ (CallsOf("add") # << >> \/ ppc \in {"add", "finalList"}) =>
             Len(dels) = n

\* a run over a pool of two accounts, one of whose deletes failed, that has
\* gone on to add a child
C10_Witness ==
  /\ pop = "update"
  /\ Len(accounts) = 2
  /\ Len(CallsOf("delete")) = 2
  /\ \E i \in 1..Len(poolLog) :
       poolLog[i].op = "delete" /\ poolLog[i].outcome = "error"
  /\ CallsOf("add") # << >>

\* the operation got past its login and every listing of the pool answered
WholeOperationCallsOk ==
  /\ \E i \in 1..Len(poolLog) :
       poolLog[i].op = "login" /\ poolLog[i].outcome = "ok"
  /\ \A i \in 1..Len(poolLog) :
       poolLog[i].op = "list" => poolLog[i].outcome = "ok"

\* the children addAllAccounts does not skip
Posted == { i \in 1..Len(fileConfig.children) : ~SkipChild(fileConfig.children[i]) }

\* C11: a failing individual pool call (one delete, one add or one health
\* check, a failure answer or a request error) never aborts updatePool or
\* cleanInvalid: when the login and the listings succeed, every enumerated
\* entry gets its delete or its health check, every child that is not skipped
\* gets its add call, and the operation returns its result object.  (SpecPool)
C11_ItemFailureNeverAborts ==
  (ppc \in {"respond", "done"} /\ WholeOperationCallsOk) =>
    /\ pret.kind = "object"
    /\ pop = "update" =>
         /\ \A k \in 1..Len(accounts) :
              Len(CallsFor("delete", accounts[k].id)) = 1
         /\ \A c \in Posted : Len(CallsFor("add", c)) = 1
    /\ pop = "clean" =>
         \A k \in 1..Len(accounts) : Len(CallsFor("test", accounts[k].id)) = 1

C11_Witness ==
  /\ pop = "update"
  /\ ppc = "done"
  /\ pret.kind = "object"
  /\ \E i, j \in 1..Len(poolLog) :
       /\ i < j
       /\ poolLog[i].op = "delete" /\ poolLog[i].outcome = "error"
       /\ poolLog[j].op = "delete"
  /\ \E i, j \in 1..Len(poolLog) :
       /\ i < j
       /\ poolLog[i].op = "add" /\ poolLog[i].outcome = "error"
       /\ poolLog[j].op = "add"

\* the calls that enumerate or change the pool
ItemCalls == SelectSeq(poolLog, LAMBDA e : e.op \in {"list", "test", "delete", "add"})

\* C12: when the pool login fails (or, for cleanInvalid, no admin password is
\* configured) the operation ends with that error, the route hands the error
\* on instead of answering success, no list, health-check, delete or add call
\* has been issued and the pool is as it was.  (SpecPool)
C12_LoginFailurePropagates ==
  (pret = Thrown("login") \/ pret = Thrown("noPassword")) =>
    /\ ItemCalls = << >>
    /\ pool = InitialPool(Len(pool))
    /\ ppc \in {"respond", "done"}
    /\ ppc = "done" => (~response.success /\ response.data = pret)

C12_Witness ==
  /\ ppc = "done"
  /\ pret = Thrown("login")
  /\ pop = "update"
  /\ Len(pool) = 2
  /\ ~response.success

\* the poll has just returned a code to the driver
PollReturned == dpc = "focusPin" /\ lastAnswer # NoAnswer

\* the poll has just thrown its timeout error
PollTimedOut == dpc = "catch" /\ dret = Thrown("codeTimeout")

\* C13: one waitForGeminiVerificationCode call makes at most 5 inbox-list
\* requests; while it polls, every failed attempt so far was followed by one
\* 5-second wait; it returns at the first attempt that yields a code, having
\* made no request after it; it throws the timeout error only after 5 failed
\* attempts, with 4 waits and none after the fifth.  (SpecRefresh)
C13_AtMostFiveAttempts ==
  /\ listRequests <= maxRetries
  /\ dpc = "codePoll" =>
       /\ attempt < maxRetries
       /\ listRequests = attempt
       /\ pollWaited = attempt * retryDelay
       /\ listRequests > 0 => AttemptCode(lastAnswer) = NoCode
       /\ verificationCode = NoCode
  /\ PollReturned =>
       /\ listRequests = attempt + 1
       /\ pollWaited = attempt * retryDelay
       /\ verificationCode = AttemptCode(lastAnswer)
       /\ verificationCode # NoCode
  /\ PollTimedOut =>
       /\ listRequests = maxRetries
       /\ pollWaited = (maxRetries - 1) * retryDelay
       /\ AttemptCode(lastAnswer) = NoCode
  /\ (dpc = "catch" /\ listRequests > 0) => PollTimedOut

C13_Witness ==
  /\ PollTimedOut
  /\ listRequests = 5
  /\ pollWaited = 20000
  /\ lastAnswer.kind = "thrown"

\* a list entry the list response gives no body text for
BodyAbsent(mail) == ~mail.hasText \/ mail.text = << >>

\* the list's target mails all lack their body, and the detail endpoint holds
\* a body with a code for one of them
CodeOnlyInDetail(list) ==
  /\ \E i \in 1..Len(list) :
       /\ list[i].subject = TargetSubject
       /\ extractGeminiVerificationCode(list[i].detail) # NoCode
  /\ \A i \in 1..Len(list) :
       list[i].subject = TargetSubject => BodyAbsent(list[i])

\* C14: an attempt whose inbox list holds the target mail without its body
\* text, while the detail endpoint holds the body with the code, yields that
\* code: the poll returns it.  (SpecRefresh)
C14_DetailCodeReturned ==
  (lastAnswer.kind = "list" /\ CodeOnlyInDetail(lastAnswer.list)) =>
    /\ PollReturned
    /\ \E i \in 1..Len(lastAnswer.list) :
         verificationCode = extractGeminiVerificationCode(lastAnswer.list[i].detail)

OnboardingSteps == {"waitNameInput", "typeName", "clickSubmit", "readUrl1", "redirect1"}

\* C15: whenever the first redirect wait holds a URL with the cid marker and
\* no create marker, at its first reading or after any 3-second poll, the
\* driver leaves the wait at once for the settle wait and the token extraction
\* on the direct branch, and a run on the direct branch never performs an
\* onboarding step.  (SpecRefresh)
C15_CidGoesDirect ==
  /\ [](branch = "direct" => dpc \notin OnboardingSteps)
  /\ [][(dpc = "redirect" /\ IncludesCid(currentUrl) /\ ~IncludesCreate(currentUrl))
          => (dpc' = "extract" /\ branch' = "direct")]_vars

C15_Witness ==
  /\ dpc = "extract"
  /\ branch = "direct"
  /\ IncludesCid(currentUrl)
  /\ ~IncludesCreate(currentUrl)

\* C16: every URL that ends the first wait through its create marker takes
\* the onboarding branch, and the second redirect poll ends as soon as a
\* re-read URL carries the cid marker.  (SpecRefresh)
C16_OnboardingThenCidPoll ==
  [][/\ (dpc = "redirect" /\ dpc' # "redirect" /\ IncludesCreate(currentUrl))
          => branch' = "onboarding"
     /\ (dpc = "redirect1" /\ elapsed1 > 0 /\ IncludesCid(currentUrl))
          => dpc' = "extract"]_vars

\* C17: when the second redirect poll has used its whole budget without the
\* cid marker, the driver goes on to the settle wait and the token extraction
\* without failing, and the extraction's outcome decides the run.  (SpecRefresh)
C17_TimeoutStillExtracts ==
  /\ [](dpc = "extract" => dret = Running)
  /\ [][(dpc = "redirect1" /\ elapsed1 >= maxWaitTime /\ ~IncludesCid(currentUrl1))
          => (dpc' = "extract" /\ dret' = dret)]_vars

C17_Witness ==
  /\ dpc = "finally"
  /\ branch = "onboarding"
  /\ ~IncludesCid(currentUrl1)
  /\ currentUrl1 # NoUrl
  /\ dret.kind = "tokens"

\* C18: in refreshAll the inter-account delay follows every child's attempt
\* that has a next child, whether the attempt succeeded or failed.
\* (SpecRefresh)
C18_DelayAfterEveryAttempt ==
  [][(rpc = "awaitDriver" /\ dpc = "done" /\ ri < Len(geminiConfig.children))
       => rpc' = "delay"]_vars

\* C19: a refreshAll run that passes its preconditions calls
\* saveGeminiMailConfig exactly once, when every child has been attempted and
\* never while the loop runs; the file then holds every child of the loaded
\* config, refreshed or not.  (SpecRefresh)
C19_SingleWriteAtEnd ==
  /\ [](rpc \in {"loop", "awaitDriver", "delay"} => configWrites = 0)
  /\ []((rpc = "done" /\ rret.kind = "counts") =>
          /\ configWrites = 1
          /\ fileConfig = geminiConfig
          /\ Len(driverCalls) = Len(fileConfig.children))
  /\ [](rret = Thrown("save") => configWrites = 1)
  /\ [][(configWrites' # configWrites \/ fileConfig' # fileConfig) =>
          /\ configWrites' = configWrites + 1
          /\ rpc = "loop" /\ rpc' = "done"
          /\ Len(driverCalls) = Len(geminiConfig.children)
          /\ Len(fileConfig'.children) = Len(fileConfig.children)
          /\ \A i \in 1..Len(fileConfig.children) :
               fileConfig'.children[i].accountId = fileConfig.children[i].accountId]_vars

C19_Witness ==
  /\ rpc = "done"
  /\ rret = Counts(1, 1)
  /\ configWrites = 1
  /\ Len(fileConfig.children) = 2
  /\ fileConfig.children[1].lastUpdated = "t1"
  /\ fileConfig.children[2].lastUpdated # "t1"

\* C20: within one refreshAll run at most one browser instance is open at any
\* time, and a browser is launched only when none is open and every earlier
\* child's outcome has been counted.  (SpecRefresh)
C20_OneBrowserAtATime ==
  /\ [](openBrowsers <= 1)
  /\ [][openBrowsers' > openBrowsers =>
          /\ openBrowsers = 0
          /\ successCount + failureCount = Len(driverCalls) - 1]_vars

C20_Witness ==
  /\ openBrowsers = 1
  /\ browser = "open"
  /\ Len(driverCalls) = 2
  /\ failureCount = 1

\* C21: the profile directory a driver run creates is removed on every exit
\* path of the run: once a run has ended, no profile directory is left on
\* disk.  (SpecRefresh)
C21_ProfileDirReleased ==
  dpc \in {"done", "idle"} => userDataDirs = 0

SyncableTokens ==
  LET kept == SelectSeq(fileConfig.children, Syncable)
  IN  [i \in 1..Len(kept) |-> kept[i].tokens]

\* C23: with an unchanged local config and a pool in which every call
\* succeeds, a second updatePool leaves the pool with the same entries as the
\* first: one per syncable child, carrying that child's tokens, and none of
\* the entries that existed before.  (SpecPoolAgain)
C23_UpdateTwiceSameEntries ==
  (runs = 1 /\ pop = "update" /\ ppc = "done" /\ RunSucceeded) =>
    /\ PoolTokens(pool) = firstPool
    /\ PoolTokens(pool) = SyncableTokens
    /\ \A i \in 1..Len(pool) : pool[i].id < 100

SelectReturned ==
  mpc = "done" /\ mop = "selectBusinessAccounts" /\ mret.kind = "value"

\* the ids of the request that are positions of the children list, in order
PositionsInList == SelectSeq(marg, LAMBDA id : id <= Len(snapshot.children))

\* C24: selectBusinessAccounts reads every id as a 1-based position of the
\* children list of the mail config, never as an accountId: what it returns
\* is the children at the requested positions, in the order of the request,
\* and that is the children list it saves to the Gemini config; with
\* children of accountIds 1, 3, 5 the id 3 selects the one of accountId 5
C24_SelectByPosition ==
  SelectReturned =>
    /\ mret.value = [k \in 1..Len(PositionsInList) |->
                       snapshot.children[PositionsInList[k]]]
    /\ fileConfig.children = mret.value
    /\ (snapshot.children = ThreeChildren /\ marg = <<3>>) =>
         mret.value = <<TempChild("5")>>

C24_Witness ==
  /\ SelectReturned
  /\ marg = <<1, 3, 5>>
  /\ snapshot.children = FiveChildren
  /\ fileConfig.children = <<TempChild("1"), TempChild("5"), TempChild("9")>>

\* C25: after a successful selectBusinessAccounts the children of the
\* Gemini config have pairwise distinct accountIds, for every id list the
\* validation of the route accepts
C25_SelectedDistinct ==
  SelectReturned =>
    \A i, j \in 1..Len(fileConfig.children) :
      fileConfig.children[i].accountId = fileConfig.children[j].accountId => i = j

ListReturned ==
  mpc = "done" /\ mop = "getAllEmailAccounts" /\ mret.kind = "value"

\* the positions of the provider list that hold the login email
LoginPositions == { i \in 1..Len(provider) : provider[i].email = LoginEmail }

\* C26: for a provider list with exactly one entry of the login email,
\* listAccounts returns that entry as parent and all the others, in their
\* order, as children, so there is one child less than entries
C26_OneMatchSplit ==
  (ListReturned /\ Cardinality(LoginPositions) = 1) =>
    LET p == CHOOSE i \in LoginPositions : TRUE
    IN  /\ mret.value.parent = provider[p]
        /\ mret.value.children =
             SubSeq(provider, 1, p - 1) \o SubSeq(provider, p + 1, Len(provider))
        /\ Len(mret.value.children) + 1 = Len(provider)

C26_Witness ==
  /\ ListReturned
  /\ provider = <<MailAccount("a@mail", "2"), MailAccount(LoginEmail, "1"),
                  MailAccount("b@mail", "3")>>
  /\ mret.value.children = <<MailAccount("a@mail", "2"), MailAccount("b@mail", "3")>>

\* C27: for a provider list with no entry of the login email, listAccounts
\* returns a made-up parent with that email and accountId null, and the
\* whole list, in its order, as children
C27_NoMatchSplit ==
  (ListReturned /\ LoginPositions = {}) =>
    /\ mret.value.parent.email = LoginEmail
    /\ mret.value.parent.accountId = Null
    /\ mret.value.children = provider

C27_Witness ==
  /\ ListReturned
  /\ provider = <<MailAccount("b@mail", "3"), MailAccount("a@mail", "2")>>
  /\ mret.value.parent.accountId = Null

LatestDone == mpc = "done" /\ mop = "getLatestVerificationCode"

\* the code each subject of the model holds
SubjectCode(subject) ==
  IF subject = SubjectSpaced THEN <<"1", "2", "3", "4", "5", "6">>
  ELSE IF subject = SubjectTight THEN <<"6", "5", "4", "3", "2", "1">>
  ELSE NoCode

\* the positions of the fetched page whose mail holds a code
CodePositions ==
  IF marg.kind = "page"
  THEN { i \in 1..Len(marg.list) : SubjectCode(marg.list[i].subject) # NoCode }
  ELSE {}

\* C29: getLatestVerificationCode makes exactly one inbox-list request,
\* returns the code of the first mail in list order whose subject matches the
\* pattern, and fails with a not-found error when the page is empty or holds
\* no such mail, without fetching another page
C29_FirstMatchOrNotFound ==
  LatestDone =>
    /\ inboxRequests = 1
    /\ marg.kind # "thrown" =>
         IF CodePositions = {}
         THEN mret \in {Thrown("noMail"), Thrown("noCodeMail")}
         ELSE LET first == CHOOSE i \in CodePositions :
                             \A j \in CodePositions : i <= j
              IN  /\ mret.kind = "value"
                  /\ mret.value.code = SubjectCode(marg.list[first].subject)
                  /\ mret.value.subject = marg.list[first].subject

C29_Witness ==
  /\ LatestDone
  /\ marg.kind = "page"
  /\ Len(marg.list) = 2
  /\ marg.list[1].subject = SubjectTight
  /\ marg.list[2].subject = SubjectSpaced
  /\ mret.kind = "value"
  /\ mret.value.code = <<"6", "5", "4", "3", "2", "1">>

SnapshotAccounts ==
  {snapshot.parent} \cup { snapshot.children[i] : i \in 1..Len(snapshot.children) }

\* C30: once createAccount or deleteAccount has returned after the provider
\* made the change, the snapshot of temp-mail.yaml holds the created account,
\* or no longer holds the deleted one
C30_SnapshotFollowsProvider ==
  /\ (mpc = "done" /\ mop = "createEmailAccount" /\ mret.kind = "value") =>
       mret.value \in SnapshotAccounts
  /\ (mpc = "done" /\ mop = "deleteEmailAccount" /\ mret.kind = "value") =>
       \A a \in SnapshotAccounts : a.accountId # marg

ExtractDone == mpc = "done" /\ mop = "extractGeminiVerificationCode"

\* the whitespace after the marker holds the two newlines
GapHasTwoNewlines ==
  \E i, j \in 1..Len(marg.gap) : i < j /\ marg.gap[i] = "NL" /\ marg.gap[j] = "NL"

\* C28: the extractor returns the six characters when the text holds the
\* marker phrase, then whitespace with the two newlines, then exactly six
\* alphanumeric characters; it returns nothing when the marker is absent or
\* when fewer or more than six alphanumeric characters follow
C28_ExactlySixOrNothing ==
  ExtractDone =>
    /\ (marg.marker # << >> /\ GapHasTwoNewlines /\ Len(marg.run) = 6) =>
         mret.value = marg.run
    /\ (marg.marker = << >> \/ Len(marg.run) # 6) => mret.value = NoCode

SelectDone == mpc = "done" /\ mop = "selectBusinessAccounts"

\* C39: selectBusinessAccounts drops the ids whose position is outside the
\* children list of the mail config and selects the others; when no id is in
\* range, or the mail config has no children, it throws and leaves the saved
\* Gemini config as it was
C39_OutOfRangeDropped ==
  SelectDone =>
    /\ Len(PositionsInList) = 0 =>
         /\ mret \in {Thrown("noChildren"), Thrown("noneSelected")}
         /\ fileConfig = geminiConfig
         /\ configWrites = 0
    /\ Len(PositionsInList) # 0 =>
         \/ mret = Thrown("save")
         \/ /\ mret.kind = "value"
            /\ Len(mret.value) = Len(PositionsInList)

C39_Witness ==
  /\ SelectReturned
  /\ marg = <<1, 6, 2>>
  /\ snapshot.children = FiveChildren
  /\ mret.value = <<TempChild("1"), TempChild("3")>>

\* the keys of a saved child record
HasKey(record, key) == key \in DOMAIN record

\* C40: a successful selectBusinessAccounts replaces parent and children of
\* the Gemini config by records of the mail config and keeps poolApiUrl,
\* password and the other top-level keys; no tokens or lastUpdated of an
\* earlier child is carried over, so updatePool skips every selected child
C40_SelectReplacesWholesale ==
  SelectReturned =>
    /\ fileConfig.parent = snapshot.parent
    /\ \A i \in 1..Len(fileConfig.children) :
         /\ \E k \in 1..Len(snapshot.children) :
              fileConfig.children[i] = snapshot.children[k]
         /\ ~HasKey(fileConfig.children[i], "tokens")
         /\ ~HasKey(fileConfig.children[i], "lastUpdated")
         /\ SkipChild(FreshChild(fileConfig.children[i].accountId))
    /\ Len(fileConfig.children) = Len(mret.value)
    /\ DOMAIN fileConfig = DOMAIN geminiConfig
    /\ fileConfig.poolApiUrl = geminiConfig.poolApiUrl
    /\ fileConfig.password = geminiConfig.password

C40_Witness ==
  /\ SelectReturned
  /\ geminiConfig.children = <<SyncedChild(1), FreshChild(2)>>
  /\ fileConfig.children = <<TempChild("1")>>

\* two configs that differ at most in tokens and lastUpdated of child i
SameButTokensOf(i, before, after) ==
  /\ DOMAIN after = DOMAIN before
  /\ after.parent = before.parent
  /\ after.password = before.password
  /\ after.poolApiUrl = before.poolApiUrl
  /\ Len(after.children) = Len(before.children)
  /\ \A k \in 1..Len(before.children) :
       IF k = i
       THEN /\ after.children[k].accountId = before.children[k].accountId
            /\ after.children[k].skipReason = before.children[k].skipReason
       ELSE after.children[k] = before.children[k]

\* C34: refreshAll changes only tokens and lastUpdated of the children whose
\* driver run returned tokens: the config in memory changes only when a
\* driver run has ended, not at all when that run failed, and only in the
\* tokens and lastUpdated of that child when it succeeded; parent, poolApiUrl,
\* password and the other fields stay; the file is written only by the final
\* save, with the config in memory
C34_OnlyTokensOfSucceeded ==
  [][/\ geminiConfig' # geminiConfig =>
          /\ rpc = "awaitDriver"
          /\ dret.kind = "tokens"
          /\ SameButTokensOf(ri, geminiConfig, geminiConfig')
          /\ geminiConfig'.children[ri].tokens = StoreTokens(dret)
     /\ (rpc = "awaitDriver" /\ rpc' # rpc /\ dret.kind # "tokens") =>
          geminiConfig' = geminiConfig
     /\ fileConfig' # fileConfig =>
          /\ rpc = "loop"
          /\ rpc' = "done"
          /\ fileConfig' = geminiConfig]_vars

C34_Witness ==
  /\ rpc = "done"
  /\ rret = Counts(1, 1)
  /\ Len(fileConfig.children) = 2
  /\ fileConfig.children[1] = SyncedChild(1)
  /\ fileConfig.children[2].lastUpdated = "t1"

\* the positions of a driver run that come after the code poll has returned
AfterCodePoll ==
  { "focusPin", "clearPin", "typeCode", "clickVerify", "readUrl", "redirect",
    "waitNameInput", "typeName", "clickSubmit", "readUrl1", "redirect1",
    "extract" }

\* C33: the steps of a driver run come in a fixed order: the mailbox is
\* polled only after the wait for the code input field, the code is typed
\* and the verify control clicked only after the poll returned a code, token
\* extraction comes only after the verify click; when the poll fails no code
\* is typed, no extraction is attempted, and the error ends the attempt of
\* the orchestrator as a failure
C33_DriverStepOrder ==
  /\ [](dpc \in AfterCodePoll => verificationCode # NoCode)
  /\ []((dpc \in {"catch", "finally", "done"} /\ dret = Thrown("codeTimeout"))
          => verificationCode = NoCode)
  /\ [][/\ (dpc' = "codePoll" /\ dpc # "codePoll") => dpc = "waitPinInput"
        /\ (dpc' = "focusPin" /\ dpc # "focusPin") =>
             (dpc = "codePoll" /\ verificationCode' # NoCode)
        /\ dpc' = "typeCode" => dpc = "clearPin"
        /\ dpc' = "clickVerify" => dpc = "typeCode"
        /\ dpc' = "readUrl" => dpc = "clickVerify"
        /\ (dpc' = "redirect" /\ dpc # "redirect") => dpc = "readUrl"
        /\ (dpc' = "extract" /\ dpc # "extract") => dpc \in {"redirect", "redirect1"}
        /\ (dpc' = "redirect1" /\ dpc # "redirect1") => dpc = "readUrl1"
        /\ dpc' = "waitNameInput" => dpc = "redirect"
        /\ (dpc = "codePoll" /\ dpc' \notin {"codePoll", "focusPin"}) =>
             (dpc' = "catch" /\ dret' = Thrown("codeTimeout"))
        /\ dpc = "catch" => (dpc' = "finally" /\ dret' = dret)
        /\ (dpc = "finally" /\ dret.kind = "thrown") =>
             (dpc' = "done" /\ dret' = dret)
        /\ (dpc = "done" /\ dret.kind = "thrown") =>
             (failureCount' = failureCount + 1 /\ geminiConfig' = geminiConfig)
       ]_vars

C33_Witness ==
  /\ dpc = "finally"
  /\ dret.kind = "tokens"
  /\ verificationCode # NoCode
  /\ branch = "onboarding"

\* the delete calls the pool answered with 2xx or with 404
DeletesReportedTrue ==
  SelectSeq(poolLog, LAMBDA e : e.op = "delete" /\ e.outcome \in {"ok", "notFound"})

\* C37: the deleteAccount helper never throws: it reports success on a 2xx
\* answer and on 404, failure on any other error, so an entry already gone
\* from the pool is counted as deleted by updatePool and as invalid by
\* cleanInvalid, and no delete call ends the operation with an error
C37_DeleteNeverThrows ==
  /\ pop = "update" => deletedCount = Len(DeletesReportedTrue)
  /\ pop = "clean" => invalidCount = Len(DeletesReportedTrue)
  /\ (poolLog # << >> /\ poolLog[Len(poolLog)].op = "delete") =>
       /\ pret.kind # "thrown"
       /\ ppc \notin {"respond", "done"} \/ pop = "clean"
  /\ (pop = "clean" /\ ppc \in {"respond", "done"} /\ poolLog # << >>
        /\ poolLog[Len(poolLog)].op = "delete") => pret.kind = "object"

C37_Witness ==
  /\ pop = "clean"
  /\ ppc = "done"
  /\ pret.kind = "object"
  /\ pret.obj.invalidCount = 1
  /\ poolLog[Len(poolLog)] = Call("delete", 101, "notFound")

\* C38: updatePool and cleanInvalid never write the Gemini config: the file
\* is the same before, during and after either operation, whatever it
\* returns or throws; the skip marker updatePool attaches to a child without
\* tokens is on the config in memory only
C38_PoolNeverWritesConfig ==
  /\ fileConfig = geminiConfig
  /\ configWrites = 0
  /\ AddPhaseOver =>
       \A i \in 1..Len(fileConfig.children) :
         (~fileConfig.children[i].hasTokens
            /\ ~Truthy(fileConfig.children[i].skipReason)) =>
           /\ poolConfig.children[i].skipReason = "noTokens"
           /\ fileConfig.children[i].skipReason = Absent

C38_Witness ==
  /\ pop = "update"
  /\ ppc = "done"
  /\ response.success
  /\ Len(fileConfig.children) = 2
  /\ fileConfig.children[1] = FreshChild(1)
  /\ poolConfig.children[1].skipReason = "noTokens"

\* C35: the code a driver run goes on to type comes from a mail delivered
\* after the run submitted the account's address; a code an earlier login
\* left in the inbox is never what the poll returns
C35_CodeFromFreshMail ==
  PollReturned =>
    \E i \in 1..Len(lastAnswer.list) :
      /\ lastAnswer.list[i].createTime = "after"
      /\ lastAnswer.list[i].hasText
      /\ extractGeminiVerificationCode(lastAnswer.list[i].text) = verificationCode

\* the add calls the pool accepted
AcceptedAdds == SelectSeq(poolLog, LAMBDA e : e.op = "add" /\ e.outcome = "ok")

\* C32: in the refresh-tokens flow the pool is called only after the refresh
\* run has written its config and returned; when the run throws no pool call
\* is made; every token set added to the pool is the one the config written
\* by that run holds for the child
C32_SyncAfterRefreshWrite ==
  /\ (pop # "none" \/ poolLog # << >>) =>
       /\ rpc = "done"
       /\ rret.kind = "counts"
       /\ configWrites = 1
       /\ fileConfig = geminiConfig
  /\ (rpc = "done" /\ rret.kind = "thrown") => (pop = "none" /\ poolLog = << >>)
  /\ \A k \in 1..Len(AcceptedAdds) :
       \E a \in 1..Len(pool) :
         /\ pool[a].id = k
         /\ pool[a].tokens = fileConfig.children[AcceptedAdds[k].arg].tokens

C32_Witness ==
  /\ pop = "update"
  /\ ppc = "done"
  /\ rret = Counts(1, 0)
  /\ fileConfig.children[1].lastUpdated = "t1"
  /\ Len(pool) = 1
  /\ pool[1].tokens = fileConfig.children[1].tokens

\* C36: a save of the Gemini config made by selectBusinessAccounts while a
\* refreshAll run is in progress is still in the config after that run has
\* made its final write
C36_NoLostUpdate ==
  (rpc = "done" /\ rret.kind = "counts" /\ SelectReturned) =>
    fileConfig.children = mret.value

\* the calls of the batch request in flight
InFlight == { k \in 1..Len(batch.calls) : batch.calls[k] = "pending" }

CallsEnded(outcome) == { k - 1 : k \in { c \in 1..Len(batch.calls) : batch.calls[c] = outcome } }

SeqRange(q) == { q[k] : k \in 1..Len(q) }

\* C31: in the batch endpoint at most 5 create calls are in flight, the calls
\* of a wave are made only when every call of the wave before has settled, a
\* failing call neither cancels nor fails a sibling or a later wave, and on
\* completion totalCreated + totalFailed is the requested count
C31_WavesOfFive ==
  mop = "createBatch" =>
    /\ Cardinality(InFlight) <= 5
    /\ \A k \in 1..Len(batch.calls) :
         /\ k - 1 < batch.i => batch.calls[k] \in {"ok", "failed"}
         /\ batch.calls[k] = "pending" => (k - 1 >= batch.i /\ k - 1 < batch.i + 5)
         /\ (k - 1 >= batch.i + 5) => batch.calls[k] = "unstarted"
    /\ mpc = "done" =>
         /\ mret.value.totalCreated + mret.value.totalFailed = marg
         /\ mret.value.totalRequested = marg
         /\ SeqRange(batch.accounts) = CallsEnded("ok")
         /\ SeqRange(batch.errors) = CallsEnded("failed")
         /\ CallsEnded("ok") \cup CallsEnded("failed") = 0..(marg - 1)
         /\ Len(provider) = mret.value.totalCreated

C31_Witness ==
  /\ mop = "createBatch"
  /\ mpc = "done"
  /\ marg = 12
  /\ batch.errors = <<0, 6>>
  /\ mret.value.totalCreated = 10

====
